---- MODULE Spec2Model ----
(***************************************************************************)
(* A model of the deep-zoom tile pyramid engine of rs-iiif-browser:        *)
(* the pyramid descriptor (rendering/tiled_image.rs), the tile cache and   *)
(* its systems (rendering/tile.rs, asset_loading.rs), the download cells   *)
(* (web.rs) and the input systems that drive them (input/*.rs,             *)
(* camera/pan_zoom_state_2d.rs).                                           *)
(*                                                                         *)
(* Numbers.  The code computes in f32.  The model computes in exact        *)
(* rational arithmetic: a scale is a record [n, d] standing for n/d, and a *)
(* coordinate of world or image space is an integer number of 1/Unit(img)  *)
(* pixels, Unit(img) being chosen so that every tile boundary of every     *)
(* level is a whole number of units.  Rounding of f32 is not modelled.     *)
(***************************************************************************)
EXTENDS Integers, Sequences, FiniteSets, TLC

VARIABLES
    fn,    \* inputs and outputs of the pure functions under check
    eng,   \* the tile engine: camera, cache, entities, asset server, frame
    web,   \* the download cells, the requests in flight, the app state
    inp,   \* the input systems: camera state, debounce, TileModState
    last   \* history: the last operation and what it observed

vars == <<fn, eng, web, inp, last>>

Idle == [op |-> "idle"]

(***************************************************************************)
(* Small helpers.                                                          *)
(***************************************************************************)
Min(S) == CHOOSE m \in S : \A k \in S : m <= k
Max(S) == CHOOSE m \in S : \A k \in S : m >= k
MinOf(a, b) == IF a <= b THEN a ELSE b
MaxOf(a, b) == IF a >= b THEN a ELSE b
Abs(a) == IF a < 0 THEN -a ELSE a

RECURSIVE Gcd(_, _)
Gcd(a, b) == IF b = 0 THEN a ELSE Gcd(b, a % b)
Lcm(a, b) == (a * b) \div Gcd(a, b)

Size(w, h) == [width |-> w, height |-> h]
Vec2(x, y) == [x |-> x, y |-> y]
Vec3(x, y, z) == [x |-> x, y |-> y, z |-> z]
Rat(n, d) == [n |-> n, d |-> d]

(***************************************************************************)
(* rendering/tiled_image.rs: the pyramid descriptor.                       *)
(* A descriptor is [levels: sequence of Size, tile_size: Size]; a level is *)
(* the code's 0-based index, so levels[level] of the code is               *)
(* img.levels[level + 1].                                                  *)
(***************************************************************************)
TiledImage(levels, tile_size) == [levels |-> levels, tile_size |-> tile_size]

LevelAt(img, level) == img.levels[level + 1]

\* fn get_max_size: the last level.
get_max_size(img) == img.levels[Len(img.levels)]

RECURSIVE LcmWidths(_, _)
LcmWidths(img, k) ==
    IF k = 0 THEN 1 ELSE Lcm(img.levels[k].width, LcmWidths(img, k - 1))

\* The number of units in a pixel: twice the least common multiple of the
\* level widths, so that tile boundaries and half pixels are whole units.
Unit(img) == 2 * LcmWidths(img, Len(img.levels))

\* fn world_to_image_scale: image_max_size.x / levels[level].width.
world_to_image_scale(img, level) ==
    Rat(get_max_size(img).width, LevelAt(img, level).width)

\* A conversion without the reflection.
no_reflect_y3(p) == p

\* Vec3::reflect(normal) for the normal Vec3::Y: p - 2 * (p . Y) * Y.
reflect_y3(p) == Vec3(p.x, p.y - 2 * p.y, p.z)
truncate(p) == Vec2(p.x, p.y)
extend(p, z) == Vec3(p.x, p.y, z)

\* fn world_to_image: p.reflect(Vec3::Y).truncate().
world_to_image(p) == truncate(reflect_y3(p))

\* fn image_to_world: p.extend(0.0).reflect(Vec3::Y).
image_to_world(p) == reflect_y3(extend(p, 0))

\* fn get_level_at, the loop of lines 244-248 from `level` on.
RECURSIVE level_scan(_, _, _)
level_scan(img, image_size_x, level) ==
    IF level > Len(img.levels) - 1
    THEN Len(img.levels) - 1
    ELSE IF image_size_x <= LevelAt(img, level).width
         THEN level
         ELSE level_scan(img, image_size_x, level + 1)

\* image_size.x.abs() as u32 for the world zoom scale s = n/d:
\* image_zoom_scale = world_to_image(splat(s)) - world_to_image(0) = (s, -s),
\* image_size = max_size / image_zoom_scale, truncated towards zero.
needed_width(img, s) ==
    LET zoom == Vec2(world_to_image(Vec3(s.n, s.n, s.n)).x - world_to_image(Vec3(0, 0, 0)).x,
                     world_to_image(Vec3(s.n, s.n, s.n)).y - world_to_image(Vec3(0, 0, 0)).y)
    IN  Abs(get_max_size(img).width * s.d) \div Abs(zoom.x)

get_level_at_lt(img, s) ==
    LET n == needed_width(img, s)
        hits == {l \in 0 .. Len(img.levels) - 1 : n < LevelAt(img, l).width}
    IN  IF hits = {} THEN Len(img.levels) - 1 ELSE Min(hits)

get_level_at_rev(img, s) ==
    LET n == needed_width(img, s)
        hits == {l \in 0 .. Len(img.levels) - 1 : n >= LevelAt(img, l).width}
    IN  IF hits = {} THEN Len(img.levels) - 1 ELSE Min(hits)

\* fn get_level_at.
get_level_at(img, s) == level_scan(img, needed_width(img, s), 0)

(***************************************************************************)
(* rendering/tiled_image.rs: the coordinate transforms and the required    *)
(* tiles.  Points of world and image space are in units (1/Unit(img) px);  *)
(* points of tile space are rationals.                                     *)
(***************************************************************************)
\* The extent of one tile of `level` in image space, in units:
\* Vec2::from(tile_size) * scale.
tile_extent(img, level) ==
    LET scale == world_to_image_scale(img, level)
    IN  Vec2((img.tile_size.width * scale.n * Unit(img)) \div scale.d,
             (img.tile_size.height * scale.n * Unit(img)) \div scale.d)

\* fn image_to_tile: p / (Vec2::from(tile_size) * scale), a rational pair.
image_to_tile(img, level, p) ==
    Vec2(Rat(p.x, tile_extent(img, level).x), Rat(p.y, tile_extent(img, level).y))

\* fn tile_to_image: p * Vec2::from(tile_size) * scale.
tile_to_image(img, level, p) ==
    Vec2(p.x * tile_extent(img, level).x, p.y * tile_extent(img, level).y)

\* `as u32` of a non-negative rational: truncation.
as_u32(r) == r.n \div r.d

\* Vec2::clamp, Vec2::min, Vec2::max, Rect::from_corners of glam / bevy_math.
vmin(a, b) == Vec2(MinOf(a.x, b.x), MinOf(a.y, b.y))
vmax(a, b) == Vec2(MaxOf(a.x, b.x), MaxOf(a.y, b.y))
vclamp(p, lo, hi) == vmin(vmax(p, lo), hi)
from_corners(a, b) == [min |-> vmin(a, b), max |-> vmax(a, b)]
rect_width(r) == r.max.x - r.min.x
rect_height(r) == r.max.y - r.min.y

\* TileIndex::new and Tile::new.
TileIndex(x, y, z) == [x |-> x, y |-> y, z |-> z]
Tile(index, image_position, world_position) ==
    [index |-> index, image_position |-> image_position,
     world_position |-> world_position]

\* The viewport clamped to the image: lines 261-272 of get_required_tiles.
clamped_viewport(img, world_pos_min, world_pos_max) ==
    LET u == Unit(img)
        image_max_size == Vec2(get_max_size(img).width * u, get_max_size(img).height * u)
        hi == Vec2(image_max_size.x - u, image_max_size.y - u)
        image_p0 == vclamp(world_to_image(world_pos_min), Vec2(0, 0), hi)
        image_p1 == vclamp(world_to_image(world_pos_max), Vec2(0, 0), hi)
    IN  [min |-> vmin(image_p0, image_p1), max |-> vmax(image_p0, image_p1)]

\* The tile built for the index (x, y) of `level`: lines 286-300.
tile_at(img, level, x, y) ==
    LET u == Unit(img)
        image_max_size == Vec2(get_max_size(img).width * u, get_max_size(img).height * u)
        image_top_left == tile_to_image(img, level, Vec2(x, y))
        image_bot_rght == vmin(tile_to_image(img, level, Vec2(x + 1, y + 1)), image_max_size)
    IN  Tile(TileIndex(x, y, level),
             from_corners(image_top_left, image_bot_rght),
             from_corners(truncate(image_to_world(image_top_left)),
                          truncate(image_to_world(image_bot_rght))))

\* The tiles pushed by the two loops of lines 284-309: those of the index
\* range whose image rectangle is wider and higher than half a pixel.
required_tile_set(img, level, world_pos_min, world_pos_max) ==
    LET v == clamped_viewport(img, world_pos_min, world_pos_max)
        tile_min == image_to_tile(img, level, v.min)
        tile_max == image_to_tile(img, level, v.max)
    IN  {t \in {tile_at(img, level, x, y) :
                    x \in as_u32(tile_min.x) .. as_u32(tile_max.x),
                    y \in as_u32(tile_min.y) .. as_u32(tile_max.y)} :
            /\ 2 * rect_width(t.image_position) > Unit(img)
            /\ 2 * rect_height(t.image_position) > Unit(img)}

\* The tiles with the two index ranges: tile_min_x and the other three start
\* at 0 (lines 279-282) and are folded with min / max over the tiles pushed
\* (lines 302-305).
with_ranges(tiles) ==
    [tiles |-> tiles,
     range_x |-> [start |-> Min({0} \cup {t.index.x : t \in tiles}),
                  end |-> Max({0} \cup {t.index.x : t \in tiles})],
     range_y |-> [start |-> Min({0} \cup {t.index.y : t \in tiles}),
                  end |-> Max({0} \cup {t.index.y : t \in tiles})]]

\* fn get_required_tiles with the index range of the loops ending one short.
get_required_tiles_short(img, level, world_pos_min, world_pos_max) ==
    with_ranges(
        {tile_at(img, level, x, y) :
            x \in as_u32(image_to_tile(img, level,
                             clamped_viewport(img, world_pos_min, world_pos_max).min).x)
                  .. as_u32(image_to_tile(img, level,
                             clamped_viewport(img, world_pos_min, world_pos_max).max).x) - 1,
            y \in as_u32(image_to_tile(img, level,
                             clamped_viewport(img, world_pos_min, world_pos_max).min).y)
                  .. as_u32(image_to_tile(img, level,
                             clamped_viewport(img, world_pos_min, world_pos_max).max).y)})

\* fn get_required_tiles: the tiles and the two ranges.
get_required_tiles(img, level, world_pos_min, world_pos_max) ==
    with_ranges(required_tile_set(img, level, world_pos_min, world_pos_max))

\* RangeInclusive::contains.
range_contains(r, k) == r.start <= k /\ k <= r.end

(***************************************************************************)
(* The pyramids the pure functions are checked on.                         *)
(***************************************************************************)
\* The pyramid of the tests (tiled_image.rs, fn setup).
TestPyramid ==
    TiledImage(<<Size(678, 478), Size(1357, 955), Size(2713, 1910)>>, Size(1024, 1024))
\* A 7 x 4 image with the scale factors 4, 2, 1 (sizes are width / f,
\* height / f) and 2 x 2 tiles: the scales 7/1 and 7/3 are not whole.
SmallPyramid == TiledImage(<<Size(1, 1), Size(3, 2), Size(7, 4)>>, Size(2, 2))
\* A 6 x 4 image with the scale factors 2, 1 and 2 x 2 tiles.
EvenPyramid == TiledImage(<<Size(3, 2), Size(6, 4)>>, Size(2, 2))
\* Whole-image mode: one level, the tile is the image.
WholePyramid == TiledImage(<<Size(5, 3)>>, Size(5, 3))

LevelPyramids == {TestPyramid, SmallPyramid, EvenPyramid, WholePyramid}
TilePyramids == {SmallPyramid, EvenPyramid, WholePyramid}

MaxScaleNum == 8
MaxScaleDen == 4
\* World zoom scales n/d > 0.
Scales == {Rat(n, d) : n \in 1 .. MaxScaleNum, d \in 1 .. MaxScaleDen}

\* How far, in pixels, a viewport corner may lie outside the image.
MaxMargin == 1
\* World corners on whole pixels, from MaxMargin outside the image on each
\* side; the world y axis points up, so the image lies at y <= 0.
WorldCorners(img) ==
    {Vec3(x * Unit(img), -(y * Unit(img)), 0) :
        x \in -MaxMargin .. get_max_size(img).width + MaxMargin,
        y \in -MaxMargin .. get_max_size(img).height + MaxMargin}

(***************************************************************************)
(* SpecLevel: get_level_at on every pyramid and every pair of scales.      *)
(***************************************************************************)
InitLevel ==
    /\ \E img \in LevelPyramids :
         \E s1 \in Scales, s2 \in Scales :
            fn = [op |-> "input", img |-> img, s1 |-> s1, s2 |-> s2]
    /\ eng = Idle /\ web = Idle /\ inp = Idle /\ last = Idle

GetLevelAt ==
    /\ fn.op = "input"
    /\ fn' = [op |-> "get_level_at", img |-> fn.img, s1 |-> fn.s1, s2 |-> fn.s2,
              l1 |-> get_level_at(fn.img, fn.s1),
              l2 |-> get_level_at(fn.img, fn.s2)]
    /\ UNCHANGED <<eng, web, inp, last>>

NextLevel == GetLevelAt
SpecLevel == InitLevel /\ [][NextLevel]_vars

\* The widths of the levels of a pyramid, by level index.
Widths(img) == [l \in 0 .. Len(img.levels) - 1 |-> LevelAt(img, l).width]

\* The level the claim describes for a needed resolution num/den: the lowest
\* level whose width w has w >= num/den, the last level when there is none.
LowestLevelAtLeast(img, num, den) ==
    LET ok == {l \in DOMAIN Widths(img) : Widths(img)[l] * den >= num}
    IN  IF ok = {} THEN Len(img.levels) - 1 ELSE Min(ok)

\* C4 as stated: get_level_at(s) is the lowest level whose width is at least
\* the needed resolution W / s (W the full-resolution width), the last level
\* when no level is that wide.
C4_AsStated ==
    fn.op = "get_level_at" =>
        fn.l1 = LowestLevelAtLeast(fn.img, get_max_size(fn.img).width * fn.s1.d, fn.s1.n)

\* C4 amended: get_level_at(s) is the lowest level whose width is at least the
\* needed resolution W / s truncated to whole pixels, the last level when no
\* level is that wide; a pyramid with one level yields 0.
C4_LevelIsLowestForTruncatedWidth ==
    fn.op = "get_level_at" =>
        /\ fn.l1 = LowestLevelAtLeast(
                      fn.img, (get_max_size(fn.img).width * fn.s1.d) \div fn.s1.n, 1)
        /\ (Len(fn.img.levels) = 1 => fn.l1 = 0)

\* C4's case: the needed resolution is not whole, its truncation is exactly
\* the width of a level that is not the last, and that level is selected.
C4_Witness ==
    /\ fn.op = "get_level_at"
    /\ fn.l1 < Len(fn.img.levels) - 1
    /\ (get_max_size(fn.img).width * fn.s1.d) % fn.s1.n # 0
    /\ (get_max_size(fn.img).width * fn.s1.d) \div fn.s1.n = Widths(fn.img)[fn.l1]

\* C5: get_level_at is monotonic: for s1 <= s2, get_level_at(s2) <=
\* get_level_at(s1).
C5_LevelMonotonic ==
    (fn.op = "get_level_at" /\ fn.s1.n * fn.s2.d <= fn.s2.n * fn.s1.d)
        => fn.l2 <= fn.l1

\* C5's case: two scales s1 < s2 that select different levels.
C5_Witness ==
    /\ fn.op = "get_level_at"
    /\ fn.s1.n * fn.s2.d < fn.s2.n * fn.s1.d
    /\ fn.l2 < fn.l1

(***************************************************************************)
(* SpecTiles: get_required_tiles on every level and every viewport.        *)
(***************************************************************************)
InitTiles ==
    /\ \E img \in TilePyramids :
         \E level \in 0 .. Len(img.levels) - 1 :
            \E p0 \in WorldCorners(img), p1 \in WorldCorners(img) :
                fn = [op |-> "input", img |-> img, level |-> level, p0 |-> p0, p1 |-> p1]
    /\ eng = Idle /\ web = Idle /\ inp = Idle /\ last = Idle

GetRequiredTiles ==
    /\ fn.op = "input"
    /\ fn' = [op |-> "get_required_tiles", img |-> fn.img, level |-> fn.level,
              p0 |-> fn.p0, p1 |-> fn.p1,
              out |-> get_required_tiles(fn.img, fn.level, fn.p0, fn.p1)]
    /\ UNCHANGED <<eng, web, inp, last>>

NextTiles == GetRequiredTiles
SpecTiles == InitTiles /\ [][NextTiles]_vars

\* The coordinates at which coverage can change along one axis, doubled so
\* that the midpoints between them are whole: the ends of the clamped
\* viewport and the tile boundaries inside it.
Samples2(lo, hi, bounds) ==
    LET pts == {lo, hi} \cup {b \in bounds : lo <= b /\ b <= hi}
    IN  {a + b : a \in pts, b \in pts}

\* Every point of the rectangle v lies in the image rectangle of a tile.
Covers(tiles, v) ==
    \A qx \in Samples2(v.min.x, v.max.x,
                       {t.image_position.min.x : t \in tiles}
                           \cup {t.image_position.max.x : t \in tiles}) :
        \A qy \in Samples2(v.min.y, v.max.y,
                           {t.image_position.min.y : t \in tiles}
                               \cup {t.image_position.max.y : t \in tiles}) :
            \E t \in tiles :
                /\ 2 * t.image_position.min.x <= qx /\ qx <= 2 * t.image_position.max.x
                /\ 2 * t.image_position.min.y <= qy /\ qy <= 2 * t.image_position.max.y

\* Two rectangles share more than boundary points.
Overlap(a, b) ==
    /\ MaxOf(a.min.x, b.min.x) < MinOf(a.max.x, b.max.x)
    /\ MaxOf(a.min.y, b.min.y) < MinOf(a.max.y, b.max.y)

\* C6: the image rectangles of the returned tiles cover the viewport
\* clamped to [0, max_size - 1] with no gap, and no two of them overlap.
C6_TilesCoverClampedViewport ==
    fn.op = "get_required_tiles" =>
        /\ Covers(fn.out.tiles, clamped_viewport(fn.img, fn.p0, fn.p1))
        /\ \A a \in fn.out.tiles : \A b \in fn.out.tiles :
               a # b => ~Overlap(a.image_position, b.image_position)

\* C6's case: a viewport with a corner outside the image, given in reverse
\* order, that needs several tiles in both directions.
C6_Witness ==
    /\ fn.op = "get_required_tiles"
    /\ fn.p0.x > fn.p1.x
    /\ fn.p1.x < 0
    /\ Cardinality({t.index.x : t \in fn.out.tiles}) >= 2
    /\ Cardinality({t.index.y : t \in fn.out.tiles}) >= 2

\* C7 as stated: the start of each returned range is the smallest and the
\* end the largest x (resp. y) index among the returned tiles.
C7_RangesAreTheIndicesProduced ==
    (fn.op = "get_required_tiles" /\ fn.out.tiles # {}) =>
        /\ fn.out.range_x.start = Min({t.index.x : t \in fn.out.tiles})
        /\ fn.out.range_x.end = Max({t.index.x : t \in fn.out.tiles})
        /\ fn.out.range_y.start = Min({t.index.y : t \in fn.out.tiles})
        /\ fn.out.range_y.end = Max({t.index.y : t \in fn.out.tiles})

(***************************************************************************)
(* The tile engine: rendering/tile.rs, asset_loading.rs and the schedule   *)
(* of lib.rs.  One frame is the Update stage (phase "update": input, and   *)
(* the asset server's progress) followed by the Last stage (phase "last"), *)
(* whose three systems run once each in any order; the commands they queue *)
(* are applied when the stage ends.                                        *)
(*                                                                         *)
(* eng.world is the set of live Tile entities, [id, index, loading,        *)
(* material]: loading is the TileLoading marker, material the              *)
(* MeshMaterial2d component.  eng.load is the asset server's load state of *)
(* the image of each tile index that has a handle.  eng.tile_mod and       *)
(* eng.tile_prune say that TileModState / TilePruneState changed since the *)
(* run condition of update_tiles_system / prune_tiles_system last looked.  *)
(***************************************************************************)
\* A 4 x 2 image with the scale factors 2, 1 and 2 x 2 tiles: one tile on
\* level 0, two tile columns on level 1.
EnginePyramid == TiledImage(<<Size(2, 1), Size(4, 2)>>, Size(2, 2))

\* AppSettings::max_cache_items, scaled down to the model's pyramid.
MaxCacheItems == 1
\* The number of times the tiled image is replaced in a behaviour.
MaxImages == 1
\* The number of frames of a behaviour.
MaxFrames == 4
\* The logical viewport of the camera, in pixels.
ViewportWidth == 1
ViewportHeight == 1

\* The camera translations (pixels, the centre of the viewport: the middle
\* of a tile column of level 1) and the orthographic scales an input can
\* lead to (level 1 and level 0).
PanXs == {1, 3}
EngineScales == {Rat(1, 1), Rat(2, 1)}

Systems == {"asset", "prune", "update"}
NoCmds == [spawn |-> {}, despawn |-> {}, loaded |-> {}]

\* camera_ext::get_world_viewport_rect: the world positions of the viewport's
\* corners (0, 0) and (width, height) under the orthographic projection.
get_world_viewport_rect(img, translation, scale) ==
    [min |-> Vec3(translation.x - (ViewportWidth * Unit(img) * scale.n) \div (2 * scale.d),
                  translation.y + (ViewportHeight * Unit(img) * scale.n) \div (2 * scale.d),
                  0),
     max |-> Vec3(translation.x + (ViewportWidth * Unit(img) * scale.n) \div (2 * scale.d),
                  translation.y - (ViewportHeight * Unit(img) * scale.n) \div (2 * scale.d),
                  0)]

\* Option<(Vec<Tile>, RangeInclusive, RangeInclusive)>.
None == [some |-> FALSE]
Some(r) ==
    [some |-> TRUE, tiles |-> r.tiles, range_x |-> r.range_x, range_y |-> r.range_y]

\* tile.rs, fn get_required_tiles, lines 136-139: the required tiles of the
\* world rectangle of the viewport.
rect_required_tiles(img, level, rect) ==
    get_required_tiles(img, level, rect.min, rect.max)

\* tile.rs, fn get_required_tiles: None while the camera has no viewport.
engine_required_tiles(e, level) ==
    IF ~e.viewport_ready
    THEN None
    ELSE Some(rect_required_tiles(
                  EnginePyramid, level,
                  get_world_viewport_rect(EnginePyramid, e.translation, e.scale)))

\* tiled_image.rs, fn on_add_tiled_image, lines 58-63: the scale that fits
\* the image to the viewport (or the window), the larger of the two ratios.
fit_zoom_scale(img) ==
    IF get_max_size(img).width * ViewportHeight >= get_max_size(img).height * ViewportWidth
    THEN Rat(get_max_size(img).width, ViewportWidth)
    ELSE Rat(get_max_size(img).height, ViewportHeight)

\* The engine when the image has been added (on_add_tiled_image, lines
\* 64-78): the camera fits the image and is centred on it, the level is
\* that of the scale, TileModState is invalidated.
InitEngine ==
    [now |-> 0, phase |-> "update", todo |-> {}, input_ran |-> FALSE, images |-> 0,
     translation |-> Vec2((get_max_size(EnginePyramid).width * Unit(EnginePyramid)) \div 2,
                          -((get_max_size(EnginePyramid).height * Unit(EnginePyramid)) \div 2)),
     scale |-> fit_zoom_scale(EnginePyramid),
     level |-> get_level_at(EnginePyramid, fit_zoom_scale(EnginePyramid)),
     viewport_ready |-> FALSE,
     cache |-> <<>>, world |-> {}, cmds |-> NoCmds, load |-> <<>>,
     tile_mod |-> TRUE, tile_prune |-> TRUE, notifications |-> 0]

\* A map without the keys of ks / with one more key.
Without(f, ks) == [k \in DOMAIN f \ ks |-> f[k]]
With(f, k, v) == [j \in DOMAIN f \cup {k} |-> IF j = k THEN v ELSE f[j]]

\* Commands::spawn reserves an entity id no live or pending entity has.
EntityIds(e) ==
    {w.id : w \in e.world} \cup {w.id : w \in e.cmds.spawn}
        \cup e.cmds.despawn \cup e.cmds.loaded
        \cup {e.cache[k].entity : k \in DOMAIN e.cache}
fresh_entity(e, index) ==
    <<index, Min({k \in 0 .. MaxFrames : <<index, k>> \notin EntityIds(e)})>>

\* AssetServer::load: a load starts unless the asset is loading or loaded.
asset_load(load, index) ==
    IF index \in DOMAIN load /\ load[index] \in {"Loading", "Loaded"}
    THEN load
    ELSE With(load, index, "Loading")

\* The history of the engine: the last operation, whether it ran, the cache
\* before it, and two facts that outlive one operation:
\*   over       an update cycle left the cache above max_cache_items and no
\*              prune pass has got past its size check since;
\*   forgotten  the indices dropped because their load failed and not
\*              requested since by a recompute cycle.
Hist(op, ran, before, over, forgotten, extra) ==
    [op |-> op, ran |-> ran, before |-> before, over |-> over,
     forgotten |-> forgotten, extra |-> extra]

InitHist == Hist("init", FALSE, <<>>, FALSE, {}, <<>>)

(***************************************************************************)
(* rendering/tile.rs, fn update_tiles_system (run_if TileModState changed). *)
(***************************************************************************)
\* Lines 168-191: a load, an entity and a cache entry for every required
\* tile that has no cache entry.
insert_missing(e, missing) ==
    [e EXCEPT
        !.load = [k \in DOMAIN e.load \cup missing |->
                     IF k \in missing THEN asset_load(e.load, k)[k] ELSE e.load[k]],
        !.cmds.spawn = e.cmds.spawn \cup
            {[id |-> fresh_entity(e, k), index |-> k, loading |-> TRUE,
              material |-> FALSE] : k \in missing},
        !.cache = [k \in DOMAIN e.cache \cup missing |->
                      IF k \in missing
                      THEN [entity |-> fresh_entity(e, k), last_visible_secs |-> 0]
                      ELSE e.cache[k]]]

\* A first loop that requests every required tile, cached or not.
update_insert_all(e, required) ==
    insert_missing(e, {t.index : t \in required})

update_insert_missing(e, required) ==
    insert_missing(e, {t.index : t \in {r \in required : r.index \notin DOMAIN e.cache}})

\* Lines 193-222: for every Tile entity with a material, TilePruneState is
\* invalidated if the tile is of another level than the active one, and
\* else the timestamp of its cache entry, if any, becomes the current time.
update_touch_visible(e) ==
    [e EXCEPT
        !.tile_prune = e.tile_prune
                          \/ (\E w \in e.world : w.material /\ w.index.z # e.level),
        !.cache = [k \in DOMAIN e.cache |->
                      IF \E w \in e.world :
                            w.material /\ w.index = k /\ w.index.z = e.level
                      THEN [e.cache[k] EXCEPT !.last_visible_secs = e.now]
                      ELSE e.cache[k]]]

\* Lines 157-224 for the required tiles found: without a viewport the system
\* invalidates TileModState again and returns.
update_tiles_with(e, required) ==
    IF ~required.some
    THEN [e EXCEPT !.tile_mod = TRUE]
    ELSE update_touch_visible(update_insert_missing(e, required.tiles))

\* The system run on the engine state e (its run condition was true).
update_tiles_system(e) == update_tiles_with(e, engine_required_tiles(e, e.level))

\* What the history keeps of a run of update_tiles_system: cycle says that
\* it got past the viewport check, requested is what it added to the cache.
update_hist(ran, cycle, before, after) ==
    Hist("update", ran, before,
         IF cycle THEN Cardinality(DOMAIN after) > MaxCacheItems ELSE last.over,
         IF cycle THEN {} ELSE last.forgotten,
         [cycle |-> cycle,
          requested |-> IF cycle THEN DOMAIN after \ DOMAIN before ELSE {},
          was_over |-> last.over,
          was_forgotten |-> last.forgotten])

UpdateTilesSystem ==
    /\ eng.phase = "last"
    /\ "update" \in eng.todo
    /\ eng' = IF eng.tile_mod
              THEN update_tiles_system(
                       [eng EXCEPT !.todo = eng.todo \ {"update"}, !.tile_mod = FALSE])
              ELSE [eng EXCEPT !.todo = eng.todo \ {"update"}]
    /\ last' = update_hist(eng.tile_mod, eng.tile_mod /\ eng.viewport_ready,
                           eng.cache, eng'.cache)
    /\ UNCHANGED <<fn, web, inp>>

(***************************************************************************)
(* rendering/tile.rs, fn prune_tiles_system (run_if TilePruneState         *)
(* changed).                                                               *)
(***************************************************************************)
\* Lines 248-250: the required tiles of every level 0 ..= app_state.level.
all_required_tiles(e) == [l \in 0 .. e.level |-> engine_required_tiles(e, l)]

\* A level with Some ranges, and x or y outside them.
outside_ranges(required_tiles, index) ==
    /\ required_tiles.some
    /\ \/ ~range_contains(required_tiles.range_x, index.x)
       \/ ~range_contains(required_tiles.range_y, index.y)

\* The check with only the active level kept in view.
is_out_of_view_active_only(required, index) ==
    \/ index.z # Max(DOMAIN required)
    \/ outside_ranges(required[index.z], index)

\* The check with a level without ranges counted as out of view.
is_out_of_view_without_ranges(required, index) ==
    \/ index.z \notin DOMAIN required
    \/ ~required[index.z].some
    \/ outside_ranges(required[index.z], index)

\* Lines 255-265: out of view if the level has no entry in
\* all_required_tiles (a level above the active one), or if it has ranges
\* and x or y is outside them.
is_out_of_view(required, index) ==
    \/ index.z \notin DOMAIN required
    \/ outside_ranges(required[index.z], index)

\* Lines 253-285, the tiles the loop acts on: the indices of the Tile
\* entities that are out of view and have a cache entry.
candidates_of(e, required) ==
    {k \in {w.index : w \in e.world} : is_out_of_view(required, k) /\ k \in DOMAIN e.cache}

prune_candidates(e) == candidates_of(e, all_required_tiles(e))

\* AssetServer::get_load_state(..) == Some(LoadState::Loaded).
is_loaded(e, index) == index \in DOMAIN e.load /\ e.load[index] = "Loaded"

saturating_sub(a, b) == IF a >= b THEN a - b ELSE 0

\* The choices without the sort: any num_items_to_remove of the loaded
\* candidates.
loaded_choices_unsorted(e, out_of_view_tiles, num_items_to_remove) ==
    {S \in SUBSET out_of_view_tiles :
        Cardinality(S) = MinOf(num_items_to_remove, Cardinality(out_of_view_tiles))}

\* Lines 287-303: the choices of the loaded candidates to remove: the first
\* num_items_to_remove of them in ascending order of last_visible_secs
\* (candidates with equal timestamps in the order the query yields them).
loaded_choices(e, out_of_view_tiles, num_items_to_remove) ==
    {S \in SUBSET out_of_view_tiles :
        /\ Cardinality(S) = MinOf(num_items_to_remove, Cardinality(out_of_view_tiles))
        /\ \A a \in S : \A b \in out_of_view_tiles \ S :
               e.cache[a].last_visible_secs <= e.cache[b].last_visible_secs}

\* Lines 274-282 and 287-303 for the candidates found: every candidate that
\* is not loaded is removed and num_items_to_remove goes down by one, not
\* below zero; then the choices of loaded candidates.
choices_among(e, candidates) ==
    loaded_choices(
        e, {k \in candidates : is_loaded(e, k)},
        saturating_sub(Cardinality(DOMAIN e.cache) - MaxCacheItems,
                       Cardinality({k \in candidates : ~is_loaded(e, k)})))

prune_loaded_choices(e) ==
    IF Cardinality(DOMAIN e.cache) <= MaxCacheItems
    THEN {{}}
    ELSE choices_among(e, prune_candidates(e))

\* The cache entries of `gone` removed and their entities despawned.
evict(e, gone) ==
    [e EXCEPT
        !.cmds.despawn = e.cmds.despawn \cup {e.cache[k].entity : k \in gone},
        !.cache = Without(e.cache, gone)]

\* The loop without its second arm: only the chosen loaded candidates go.
evict_only_loaded(e, candidates, S) == evict(e, S)

evict_unloaded_and(e, candidates, S) ==
    evict(e, {k \in candidates : ~is_loaded(e, k)} \cup S)

\* The system run on the engine state e, removing the loaded candidates S.
prune_tiles_system(e, S) ==
    IF Cardinality(DOMAIN e.cache) <= MaxCacheItems
    THEN e
    ELSE evict_unloaded_and(e, prune_candidates(e), S)

PruneTilesSystem ==
    /\ eng.phase = "last"
    /\ "prune" \in eng.todo
    /\ \E S \in (IF eng.tile_prune THEN prune_loaded_choices(eng) ELSE {{}}) :
          eng' = IF eng.tile_prune
                 THEN prune_tiles_system(
                          [eng EXCEPT !.todo = eng.todo \ {"prune"}, !.tile_prune = FALSE], S)
                 ELSE [eng EXCEPT !.todo = eng.todo \ {"prune"}]
    /\ last' = Hist("prune", eng.tile_prune, eng.cache,
                    IF eng.tile_prune /\ Cardinality(DOMAIN eng.cache) > MaxCacheItems
                    THEN FALSE
                    ELSE last.over,
                    last.forgotten,
                    [passed |-> eng.tile_prune
                                  /\ Cardinality(DOMAIN eng.cache) > MaxCacheItems,
                     candidates |-> prune_candidates(eng)])
    /\ UNCHANGED <<fn, web, inp>>

(***************************************************************************)
(* asset_loading.rs, fn asset_event_system (runs every frame).             *)
(***************************************************************************)
\* The Tile entities With<TileLoading> whose load state is `state`.
loading_tiles(e, state) ==
    {w \in e.world : w.loading /\ w.index \in DOMAIN e.load /\ e.load[w.index] = state}

\* Lines 31-61 for the loaded and the failed tiles found, the cache entry of
\* a failed tile kept.
asset_events_keep_entry(e, loaded, failed) ==
    [e EXCEPT
        !.cmds.loaded = e.cmds.loaded \cup {w.id : w \in loaded},
        !.cmds.despawn = e.cmds.despawn \cup {w.id : w \in failed},
        !.tile_mod = e.tile_mod \/ loaded # {} \/ failed # {}]

\* Lines 31-61 for the loaded and the failed tiles found: a loaded tile
\* loses TileLoading and gets its mesh and material; a failed tile is
\* despawned and its cache entry removed; both invalidate TileModState.  No
\* UserNotification is written.
asset_events(e, loaded, failed) ==
    [e EXCEPT
        !.cmds.loaded = e.cmds.loaded \cup {w.id : w \in loaded},
        !.cmds.despawn = e.cmds.despawn \cup {w.id : w \in failed},
        !.cache = Without(e.cache, {w.index : w \in failed}),
        !.tile_mod = e.tile_mod \/ loaded # {} \/ failed # {}]

asset_event_system(e) ==
    asset_events(e, loading_tiles(e, "Loaded"), loading_tiles(e, "Failed"))

AssetEventSystem ==
    /\ eng.phase = "last"
    /\ "asset" \in eng.todo
    /\ eng' = asset_event_system([eng EXCEPT !.todo = eng.todo \ {"asset"}])
    /\ last' = Hist("asset", TRUE, eng.cache, last.over,
                    last.forgotten \cup {w.index : w \in loading_tiles(eng, "Failed")},
                    [failed |-> loading_tiles(eng, "Failed"),
                     loaded |-> loading_tiles(eng, "Loaded"),
                     notifications |-> eng.notifications])
    /\ UNCHANGED <<fn, web, inp>>

(***************************************************************************)
(* lib.rs: the frame.                                                      *)
(***************************************************************************)
\* The world after the despawns, the components of the loaded tiles and the
\* spawns of the queued commands.
world_after(e) ==
    {IF w.id \in e.cmds.loaded
     THEN [w EXCEPT !.loading = FALSE, !.material = TRUE]
     ELSE w : w \in {x \in e.world \cup e.cmds.spawn : x.id \notin e.cmds.despawn}}

\* The commands of the Last stage applied.  An asset without a live handle
\* is dropped.
settle(e, world) ==
    [e EXCEPT
        !.world = world,
        !.cmds = NoCmds,
        !.load = [k \in DOMAIN e.load \cap {w.index : w \in world} |-> e.load[k]]]

apply_commands(e) == settle(e, world_after(e))

\* The Last stage ends: its commands are applied and the next frame's Update
\* stage begins.
EndFrame ==
    /\ eng.phase = "last"
    /\ eng.todo = {}
    /\ eng' = [apply_commands(eng) EXCEPT !.phase = "update"]
    /\ last' = Hist("end_frame", TRUE, eng.cache, last.over, last.forgotten,
                    [despawned |-> eng.cmds.despawn])
    /\ UNCHANGED <<fn, web, inp>>

\* The Update stage ends and the Last stage of lib.rs:117-127 begins: its
\* systems have no order among them.
BeginLast ==
    /\ eng.phase = "update"
    /\ eng.now < MaxFrames
    /\ eng' = [eng EXCEPT !.phase = "last", !.todo = Systems, !.now = eng.now + 1,
                          !.input_ran = FALSE]
    /\ last' = Hist("stage", TRUE, <<>>, last.over, last.forgotten, <<>>)
    /\ UNCHANGED <<fn, web, inp>>

\* A first half of on_remove_tiled_image that leaves the tile cache alone.
on_remove_tiled_image_keep_cache(e) ==
    [e EXCEPT
        !.cmds.despawn = e.cmds.despawn \cup {w.id : w \in e.world},
        !.tile_mod = TRUE]

\* tile.rs, fn on_remove_tiled_image: the tile cache is cleared, a despawn
\* is queued for every Tile entity and TileModState is invalidated.
on_remove_tiled_image(e) ==
    [e EXCEPT
        !.cache = <<>>,
        !.cmds.despawn = e.cmds.despawn \cup {w.id : w \in e.world},
        !.tile_mod = TRUE]

\* tiled_image.rs, fn on_add_tiled_image, lines 58-78: the camera fits the
\* new image, the level is that of the scale, TileModState is invalidated.
on_add_tiled_image(e) ==
    [e EXCEPT
        !.translation = InitEngine.translation,
        !.scale = InitEngine.scale,
        !.level = InitEngine.level,
        !.tile_mod = TRUE]

\* web.rs:198-208, the commands of load_canvas_system applied in the Update
\* stage: the tiled image is despawned, which triggers on_remove_tiled_image
\* and then its despawns, and an image of the same pyramid is spawned.
ReplaceTiledImage ==
    /\ eng.phase = "update"
    /\ eng.images < MaxImages
    /\ eng.now < MaxFrames
    /\ eng' = [on_add_tiled_image(apply_commands(on_remove_tiled_image(eng)))
                  EXCEPT !.images = eng.images + 1]
    /\ last' = Hist("replace", TRUE, eng.cache, FALSE, {}, [tiles |-> eng.world])
    /\ UNCHANGED <<fn, web, inp>>

\* The camera gets its logical viewport (it has none when the app starts).
ViewportReady ==
    /\ eng.phase = "update"
    /\ ~eng.viewport_ready
    /\ eng' = [eng EXCEPT !.viewport_ready = TRUE]
    /\ last' = Hist("stage", TRUE, <<>>, last.over, last.forgotten, <<>>)
    /\ UNCHANGED <<fn, web, inp>>

\* The camera loses its logical viewport (the window is minimised):
\* get_world_viewport_rect returns None from then on.
ViewportLost ==
    /\ eng.phase = "update"
    /\ eng.viewport_ready
    /\ eng.now < MaxFrames
    /\ eng' = [eng EXCEPT !.viewport_ready = FALSE]
    /\ last' = Hist("stage", TRUE, <<>>, last.over, last.forgotten, <<>>)
    /\ UNCHANGED <<fn, web, inp>>

\* input/touch.rs: the input system of a frame moves the camera to the
\* translation (x, the image's middle row) and the scale sc;
\* PanZoomState2d::apply sets app_state.level from the new scale
\* (pan_zoom_state_2d.rs:81-85) and the system invalidates TileModState
\* (touch.rs:163-166).
Gesture ==
    /\ eng.phase = "update"
    /\ ~eng.input_ran
    /\ \E x \in PanXs, sc \in EngineScales :
          /\ <<x * Unit(EnginePyramid), sc>> # <<eng.translation.x, eng.scale>>
          /\ eng' = [eng EXCEPT !.translation.x = x * Unit(EnginePyramid),
                                !.scale = sc,
                                !.level = get_level_at(EnginePyramid, sc),
                                !.tile_mod = TRUE,
                                !.input_ran = TRUE]
    /\ last' = Hist("stage", TRUE, <<>>, last.over, last.forgotten, <<>>)
    /\ UNCHANGED <<fn, web, inp>>

\* The asset server finishes the load of a tile image, or fails.
AssetLoaded ==
    /\ eng.phase = "update"
    /\ \E k \in DOMAIN eng.load :
          /\ eng.load[k] = "Loading"
          /\ eng' = [eng EXCEPT !.load[k] = "Loaded"]
    /\ last' = Hist("stage", TRUE, <<>>, last.over, last.forgotten, <<>>)
    /\ UNCHANGED <<fn, web, inp>>

AssetFailed ==
    /\ eng.phase = "update"
    /\ \E k \in DOMAIN eng.load :
          /\ eng.load[k] = "Loading"
          /\ eng' = [eng EXCEPT !.load[k] = "Failed"]
    /\ last' = Hist("stage", TRUE, <<>>, last.over, last.forgotten, <<>>)
    /\ UNCHANGED <<fn, web, inp>>

Init ==
    /\ eng = InitEngine
    /\ last = InitHist
    /\ fn = Idle /\ web = Idle /\ inp = Idle

Next ==
    \/ ViewportReady
    \/ ViewportLost
    \/ ReplaceTiledImage
    \/ Gesture
    \/ AssetLoaded
    \/ AssetFailed
    \/ BeginLast
    \/ AssetEventSystem
    \/ PruneTilesSystem
    \/ UpdateTilesSystem
    \/ EndFrame

Spec == Init /\ [][Next]_vars

(***************************************************************************)
(* Properties of the tile engine.                                          *)
(***************************************************************************)
\* The indices of the required tiles of `level` for the viewport of e.
required_indices(e, level) ==
    IF engine_required_tiles(e, level).some
    THEN {t.index : t \in engine_required_tiles(e, level).tiles}
    ELSE {}

\* The indices of the required tiles of the protected levels, 0 up to and
\* including the active level.
protected_required(e) == UNION {required_indices(e, l) : l \in 0 .. e.level}

\* C1: prune_tiles_system never evicts a tile of the required-tile set of a
\* protected level (0 up to and including the active level) for the current
\* viewport: each such tile that had a cache entry before the pass has the
\* same entry after it.
C1_PruneKeepsRequiredTiles ==
    (last.op = "prune" /\ last.ran) =>
        \A k \in protected_required(eng) \cap DOMAIN last.before :
            k \in DOMAIN eng.cache /\ eng.cache[k] = last.before[k]

\* C1's case: a pass that got past its size check on level 1 evicted a tile
\* and left the cache over budget, with a required tile of level 0 and one
\* of level 1 in the cache.
C1_Witness ==
    /\ last.op = "prune"
    /\ last.extra.passed
    /\ eng.level = 1
    /\ DOMAIN eng.cache # DOMAIN last.before
    /\ Cardinality(DOMAIN eng.cache) > MaxCacheItems
    /\ required_indices(eng, 0) \cap DOMAIN eng.cache # {}
    /\ required_indices(eng, 1) \cap DOMAIN eng.cache # {}

\* C2 as stated: when a recompute cycle left the cache above
\* max_cache_items, a prune pass gets past its size check before a later
\* recompute cycle adds to the cache.
C2_PruneBeforeCacheGrowsAgain ==
    (last.op = "update" /\ last.extra.cycle /\ last.extra.was_over) =>
        last.extra.requested = {}

\* A cached tile out of view for its level: its level is above the active
\* one, or it is not among the required tiles of its level.
out_of_view_for_level(e, k) ==
    \/ k.z > e.level
    \/ e.viewport_ready /\ k \notin required_indices(e, k.z)

\* C3 as stated: after a prune pass that starts above max_cache_items, the
\* cache holds at most max_cache_items entries whenever the cached tiles out
\* of view for their level were at least as many as the excess.
C3_PruneReachesBudget ==
    (/\ last.op = "prune"
     /\ last.extra.passed
     /\ Cardinality({k \in DOMAIN last.before : out_of_view_for_level(eng, k)})
            >= Cardinality(DOMAIN last.before) - MaxCacheItems)
        => Cardinality(DOMAIN eng.cache) <= MaxCacheItems

\* C9: when the load of a tile has failed, asset_event_system removes its
\* cache entry, queues the despawn of its entity, which is gone when the
\* frame ends, and invalidates TileModState, which stays invalidated until a
\* recompute cycle; that cycle requests the tile again if it is required;
\* no UserNotification is written.
C9_FailedTileIsForgottenAndRetried ==
    /\ last.op = "asset" =>
          \A w \in last.extra.failed :
              /\ w.index \notin DOMAIN eng.cache
              /\ w.id \in eng.cmds.despawn
              /\ eng.tile_mod
              /\ eng.notifications = last.extra.notifications
    /\ last.op = "end_frame" =>
          \A w \in eng.world : w.id \notin last.extra.despawned
    /\ last.forgotten # {} => eng.tile_mod
    /\ (last.op = "update" /\ last.extra.cycle) =>
          \A k \in last.extra.was_forgotten \cap required_indices(eng, eng.level) :
              /\ k \in last.extra.requested
              /\ eng.load[k] = "Loading"
              /\ \E w \in eng.cmds.spawn :
                    w.index = k /\ w.loading /\ w.id = eng.cache[k].entity

\* C9's case: a recompute cycle requests again a tile whose load failed.
C9_Witness ==
    /\ last.op = "update"
    /\ last.extra.cycle
    /\ last.extra.was_forgotten \cap last.extra.requested # {}

(***************************************************************************)
(* web.rs: the two download streams (the manifest JSON and the image       *)
(* JSON), each with one shared cell Arc<Mutex<DownloadState<T>>>, the      *)
(* fetches in flight, and the systems that poll the cells every frame.     *)
(*                                                                         *)
(* A URL is a sequence of path segments: a manifest URL is <<m>>, the IIIF *)
(* endpoint of canvas i of that manifest <<m, i>>, its info URL            *)
(* <<m, i, "info.json">>.  The ehttp callbacks run on other threads, so a  *)
(* completion is a step of its own between any two steps of the frame      *)
(* loop; the mutex makes each of them atomic.  web.latest and              *)
(* web.latest_info, the URL and the info of the request issued last on     *)
(* each stream, are history, as is `last`; so are web.stale, the image     *)
(* fetches that were in flight when the user went to a canvas, and         *)
(* web.written_by, the fetch whose callback wrote each cell last.          *)
(***************************************************************************)
ManifestUrls == {<<"m1">>, <<"m2">>}
\* The number of canvases of a manifest.
NumCanvases == 2
\* The number of requests the user interface issues in a behaviour.
MaxRequests == 3

NoUrl == <<>>
NoEntity == [present |-> FALSE]
NoInfo == [issued |-> FALSE]

\* app_state.rs, enum DownloadState<T>.
DownloadNone == [state |-> "None"]
InProgress(url) == [state |-> "InProgress", url |-> url]
Done(json, info) == [state |-> "Done", json |-> json, info |-> info]
Error(url, msg) == [state |-> "Error", url |-> url, msg |-> msg]

ManifestDownloadInfo(url) == [url |-> url]
ImageDownloadInfo(iiif_endpoint, canvas_index) ==
    [iiif_endpoint |-> iiif_endpoint, canvas_index |-> canvas_index]

\* tiled_image.rs, fn get_image_info_url: "{iiif_endpoint}/info.json".
get_image_info_url(iiif_endpoint) == iiif_endpoint \o <<"info.json">>

\* What a fetch can end with: Err(msg), Ok with bytes that are not UTF-8, or
\* Ok with a JSON text.  A manifest JSON is unparsable ("bad"), has no
\* canvas ("empty"), has tiled images with an image service each ("tiled")
\* or with one image service for all its canvases ("shared"), or a Model as
\* the image of its first canvas ("model"); an image JSON is unparsable or
\* "good".
Jsons(stream) ==
    IF stream = "manifest"
    THEN {"bad", "empty", "tiled", "shared", "model"}
    ELSE {"bad", "good"}
FetchResults(stream) ==
    {[kind |-> "err", json |-> ""], [kind |-> "not_utf8", json |-> ""]}
        \cup {[kind |-> "ok", json |-> j] : j \in Jsons(stream)}

\* web.rs:30-50 without the comparison of the URLs.
fetch_callback_any_url(cell, url, result, info) ==
    IF cell.state = "InProgress"
    THEN IF result.kind = "ok"
         THEN Done(result.json, info)
         ELSE Error(url, result.kind)
    ELSE cell

\* web.rs:24-52, the closure given to ehttp::fetch, on the cell it locks: the
\* result is written if the cell is InProgress with the URL of this request.
fetch_callback(cell, url, result, info) ==
    IF cell.state = "InProgress" /\ cell.url = url
    THEN IF result.kind = "ok"
         THEN Done(result.json, info)
         ELSE Error(url, result.kind)
    ELSE cell

\* web.rs, fn load: the cell becomes InProgress { url } and the fetch starts.
load(w, stream, url, info) ==
    [w EXCEPT
        !.cells[stream] = InProgress(url),
        !.flights = w.flights \cup
            {[id |-> w.issued + 1, stream |-> stream, url |-> url, info |-> info]},
        !.issued = w.issued + 1,
        !.latest[stream] = url,
        !.latest_info[stream] = info]

\* web.rs, fn load_presentation.
load_presentation(w, presentation_url) ==
    load(w, "manifest", presentation_url, ManifestDownloadInfo(presentation_url))

\* Manifest::try_from_json.
Manifest(url, json) == [present |-> TRUE, url |-> url, kind |-> json]

\* web.rs:165, image.get_service(): the IIIF endpoint the manifest names for
\* the image of the canvas.
get_service(presentation, canvas_index) ==
    IF presentation.kind = "shared"
    THEN presentation.url \o <<0>>
    ELSE presentation.url \o <<canvas_index>>

\* History: the user goes to the canvas canvas_index of the manifest; the
\* image fetches in flight for another canvas, or for a canvas of another
\* manifest, are those of earlier navigations.
navigated(w, presentation, canvas_index) ==
    [w EXCEPT !.stale = w.stale \cup
        {f.id : f \in {g \in w.flights :
                          /\ g.stream = "image"
                          /\ \/ g.info.canvas_index # canvas_index
                             \/ SubSeq(g.info.iiif_endpoint, 1, 1) # presentation.url}}]

\* web.rs, fn load_canvas: Err without the canvas; a Model replaces the
\* model images; a tiled image starts the fetch of its info.json.
load_canvas(w, presentation, canvas_index) ==
    IF presentation.kind = "empty" \/ canvas_index >= NumCanvases
    THEN [ok |-> FALSE, w |-> w]
    ELSE IF presentation.kind = "model" /\ canvas_index = 0
         THEN [ok |-> TRUE,
               w |-> [navigated(w, presentation, canvas_index) EXCEPT
                         !.model_image = presentation.url \o <<canvas_index>>]]
         ELSE [ok |-> TRUE,
               w |-> load(navigated(w, presentation, canvas_index), "image",
                          get_image_info_url(get_service(presentation, canvas_index)),
                          ImageDownloadInfo(get_service(presentation, canvas_index),
                                            canvas_index))]

\* web.rs:86-120: a parsed manifest.
presentation_done(w, presentation, loaded) ==
    IF loaded.ok
    THEN [loaded.w EXCEPT !.manifest = presentation, !.open_left_panel = TRUE]
    ELSE [loaded.w EXCEPT !.notifications = w.notifications + 1]

presentation_parsed(w, presentation) ==
    presentation_done(w, presentation, load_canvas(w, presentation, 0))

\* presentation/manifest.rs, fn on_remove_manifest: with the manifest its
\* images are despawned (and with a tiled image its tiles and the tile
\* cache, rendering/tile.rs, fn on_remove_tiled_image).
on_remove_manifest(w) ==
    IF w.manifest.present
    THEN [w EXCEPT !.manifest = NoEntity, !.tiled_image = NoUrl, !.model_image = NoUrl]
    ELSE w

\* web.rs, fn load_presentation_system on the cell it finds.
presentation_poll(w, cell) ==
    IF cell.state = "Done"
    THEN IF cell.json # "bad"
         THEN [presentation_parsed(
                   [on_remove_manifest(w) EXCEPT
                             !.presentation_url = cell.info.url,
                             !.canvas_index = 0,
                             !.ui_presentation_url = cell.info.url,
                             !.ui_canvas_index = 1],
                   Manifest(cell.info.url, cell.json))
                 EXCEPT !.cells.manifest = DownloadNone]
         ELSE [w EXCEPT !.notifications = w.notifications + 1,
                        !.cells.manifest = DownloadNone]
    ELSE IF cell.state = "Error"
         THEN [w EXCEPT !.notifications = w.notifications + 1,
                        !.cells.manifest = DownloadNone]
         ELSE w

load_presentation_system(w) == presentation_poll(w, w.cells.manifest)

\* web.rs, fn load_canvas_system on the cell it finds.
canvas_poll(w, cell) ==
    IF cell.state = "Done"
    THEN IF cell.json = "good"
         THEN [w EXCEPT !.canvas_index = cell.info.canvas_index,
                        !.tiled_image = cell.info.iiif_endpoint,
                        !.ui_canvas_index = cell.info.canvas_index + 1,
                        !.cells.image = DownloadNone]
         ELSE [w EXCEPT !.notifications = w.notifications + 1,
                        !.cells.image = DownloadNone]
    ELSE IF cell.state = "Error"
         THEN [w EXCEPT !.notifications = w.notifications + 1,
                        !.cells.image = DownloadNone]
         ELSE w

load_canvas_system(w) == canvas_poll(w, w.cells.image)

\* AppState::default and EguiUiState before the startup systems.
DefaultWeb ==
    [cells |-> [manifest |-> DownloadNone, image |-> DownloadNone],
     flights |-> {}, issued |-> 0,
     latest |-> [manifest |-> NoUrl, image |-> NoUrl],
     latest_info |-> [manifest |-> NoInfo, image |-> NoInfo],
     stale |-> {}, written_by |-> [manifest |-> 0, image |-> 0],
     presentation_url |-> NoUrl, canvas_index |-> 0,
     manifest |-> NoEntity, tiled_image |-> NoUrl, model_image |-> NoUrl,
     ui_presentation_url |-> NoUrl, ui_canvas_index |-> 0,
     open_left_panel |-> FALSE, notifications |-> 0]

\* lib.rs, fn setup_initial_presentation: the manifest of the command line.
InitWeb ==
    /\ \E url \in ManifestUrls : web = load_presentation(DefaultWeb, url)
    /\ last = [op |-> "init"]
    /\ fn = Idle /\ eng = Idle /\ inp = Idle

\* The cells and the application state: everything but the fetches in flight.
AppView(w) == [w EXCEPT !.flights = {}]

\* A fetch ends and its callback runs.
FetchComplete ==
    /\ \E f \in web.flights : \E result \in FetchResults(f.stream) :
          /\ web' = [web EXCEPT
                        !.flights = web.flights \ {f},
                        !.cells[f.stream] =
                            fetch_callback(web.cells[f.stream], f.url, result, f.info),
                        !.written_by[f.stream] =
                            IF fetch_callback(web.cells[f.stream], f.url, result, f.info)
                                   = web.cells[f.stream]
                            THEN web.written_by[f.stream]
                            ELSE f.id]
          /\ last' = [op |-> "fetch", stream |-> f.stream, url |-> f.url,
                      before |-> AppView(web)]
    /\ UNCHANGED <<fn, eng, inp>>

\* presentation/ui.rs:535-546: the URL field loses focus with a URL that is
\* not the current one.
UiLoadPresentation ==
    /\ web.issued < MaxRequests
    /\ \E url \in ManifestUrls :
          /\ url # web.presentation_url
          /\ web' = load_presentation([web EXCEPT !.ui_presentation_url = url], url)
    /\ last' = [op |-> "ui"]
    /\ UNCHANGED <<fn, eng, inp>>

\* presentation/ui.rs:385-410 and 485-505: a canvas of the manifest shown is
\* chosen.
UiLoadCanvas ==
    /\ web.issued < MaxRequests
    /\ web.manifest.present
    /\ \E canvas_index \in 0 .. NumCanvases - 1 :
          web' = load_canvas(web, web.manifest, canvas_index).w
    /\ last' = [op |-> "ui"]
    /\ UNCHANGED <<fn, eng, inp>>

\* The frame loop polls the manifest cell.
LoadPresentationSystem ==
    /\ web' = load_presentation_system(web)
    /\ last' = [op |-> "poll", stream |-> "manifest", before |-> AppView(web)]
    /\ UNCHANGED <<fn, eng, inp>>

\* The frame loop polls the image cell; the system needs Single<&Manifest>.
LoadCanvasSystem ==
    /\ web.manifest.present
    /\ web' = load_canvas_system(web)
    /\ last' = [op |-> "poll", stream |-> "image", before |-> AppView(web)]
    /\ UNCHANGED <<fn, eng, inp>>

NextWeb ==
    \/ FetchComplete
    \/ UiLoadPresentation
    \/ UiLoadCanvas
    \/ LoadPresentationSystem
    \/ LoadCanvasSystem

SpecWeb == InitWeb /\ [][NextWeb]_vars

\* The cell of the completed fetch's stream, before the completion, was
\* InProgress for the URL of that fetch.
CompletionIsCurrent ==
    /\ last.before.cells[last.stream].state = "InProgress"
    /\ last.before.cells[last.stream].url = last.url

\* C8: a fetch completion is written into the cell of its stream only if the
\* cell is InProgress for the URL of the request issued last on the stream;
\* the completion of a superseded request (another URL, or a cell that is
\* not InProgress) leaves the cells and the application state unchanged.
C8_StaleCompletionIsDiscarded ==
    last.op = "fetch" =>
        /\ web.cells[last.stream] # last.before.cells[last.stream] =>
              /\ CompletionIsCurrent
              /\ last.url = last.before.latest[last.stream]
        /\ ~CompletionIsCurrent => AppView(web) = last.before

\* C8's case: a fetch completes while the cell of its stream is InProgress
\* for another URL, with another fetch in flight and a result already
\* polled.
C8_Witness ==
    /\ last.op = "fetch"
    /\ last.before.cells[last.stream].state = "InProgress"
    /\ last.before.cells[last.stream].url # last.url
    /\ web.flights # {}
    /\ web.presentation_url # NoUrl

\* What a navigation changes: the manifest and the canvas shown.  The tiles
\* and the tile cache belong to the tiled image and go with it.
NavView(w) ==
    [presentation_url |-> w.presentation_url, canvas_index |-> w.canvas_index,
     manifest |-> w.manifest, tiled_image |-> w.tiled_image]

\* The cell a poll finds holds a failed load: a network error, bytes that
\* are not UTF-8, or a payload from which the manifest, its first canvas or
\* the image description cannot be read.
poll_finds_failure(cell) ==
    \/ cell.state = "Error"
    \/ cell.state = "Done" /\ cell.json \in {"bad", "empty"}

C28_ConsumedResultIsOfLatestRequest ==
    (last.op = "poll" /\ last.before.cells[last.stream].state = "Done") =>
        last.before.cells[last.stream].info = last.before.latest_info[last.stream]

\* C33 as stated: once the user has gone to another canvas, the completion
\* of an image-description request that was in flight then is never applied:
\* no poll spawns a TiledImage or sets canvas_index from its result,
\* whatever the canvas gone to is, a 3D model included.
C33_EarlierCompletionNeverApplied ==
    (/\ last.op = "poll"
     /\ last.stream = "image"
     /\ last.before.cells.image.state = "Done"
     /\ last.before.written_by.image \in last.before.stale) =>
        /\ web.tiled_image = last.before.tiled_image
        /\ web.canvas_index = last.before.canvas_index

\* The same of the URL the info belongs to: the result consumed was fetched
\* from the URL of the request issued last on the stream.
ConsumedResultIsOfLatestUrl ==
    (last.op = "poll" /\ last.before.cells[last.stream].state = "Done") =>
        /\ last.stream = "manifest" =>
              last.before.cells.manifest.info.url = last.before.latest.manifest
        /\ last.stream = "image" =>
              get_image_info_url(last.before.cells.image.info.iiif_endpoint)
                  = last.before.latest.image

(***************************************************************************)
(* input/mouse.rs, input/touch.rs and camera/pan_zoom_state_2d.rs: the     *)
(* input systems of the 2D camera and the zoom debounce.                   *)
(*                                                                         *)
(* Time is counted in eighths of a second.  Scales, positions and deltas   *)
(* are exact rationals [n, d] with d > 0, in lowest terms.  A frame begins *)
(* with the time, the touches and TileModState's change flag of that frame *)
(* (update_tiles_system has consumed the flag of the frame before); then   *)
(* mouse_input_system and touch_input_system run once each, in any order.  *)
(* A frame has mouse input or touches, not both.                           *)
(***************************************************************************)
RNorm(r) == Rat(r.n \div Gcd(Abs(r.n), r.d), r.d \div Gcd(Abs(r.n), r.d))
RInt(k) == Rat(k, 1)
RAdd(a, b) == RNorm(Rat(a.n * b.d + b.n * a.d, a.d * b.d))
RSub(a, b) == RNorm(Rat(a.n * b.d - b.n * a.d, a.d * b.d))
RMul(a, b) == RNorm(Rat(a.n * b.n, a.d * b.d))
RLe(a, b) == a.n * b.d <= b.n * a.d
RMaxOf(a, b) == IF RLe(b, a) THEN a ELSE b
RMinOf(a, b) == IF RLe(a, b) THEN a ELSE b
RZero == RInt(0)

\* Vec2 / Vec3 with z = 0 of rationals.
RVec(x, y) == Vec2(RInt(x), RInt(y))
VSub(a, b) == Vec2(RSub(a.x, b.x), RSub(a.y, b.y))
VAdd(a, b) == Vec2(RAdd(a.x, b.x), RAdd(a.y, b.y))
VScale(a, r) == Vec2(RMul(a.x, r), RMul(a.y, r))
VReflectY(a) == Vec2(a.x, RSub(RZero, a.y))
VZero == RVec(0, 0)

\* 1.0 / 4.0 seconds (mouse.rs:35), in eighths of a second.
QuarterSecond == 2
\* The frames of a behaviour and the longest time between two frames.
MaxInputFrames == 3
MaxDt == 2
\* AppSettings::min_image_size, scaled down to the model's image.
MinImageSize == 1

\* AppSettings::default: min_camera_zoom_scale = 1.0 / 4.0.
min_camera_zoom_scale == Rat(1, 4)
\* pan_zoom_state_2d.rs:59-60.
max_camera_zoom_scale ==
    RNorm(Rat(get_max_size(EnginePyramid).width, MinImageSize))

\* Camera::logical_viewport_rect().center().
viewport_centre == Vec2(RNorm(Rat(ViewportWidth, 2)), RNorm(Rat(ViewportHeight, 2)))

\* PanZoomState2d::get_initial_state.
get_initial_state(camera) == [translation |-> camera.translation, scale |-> camera.scale]

\* pan_zoom_state_2d.rs:62-64 and keyboard.rs:54-56:
\* scale.max(min_camera_zoom_scale).min(max_camera_zoom_scale).
clamp_scale_to(scale, max_scale) ==
    RMinOf(RMaxOf(scale, min_camera_zoom_scale), max_scale)

\* pan_zoom_state_2d.rs:62-64: the clamped scale.
clamp_scale(scale) == clamp_scale_to(scale, max_camera_zoom_scale)

\* An apply whose zoom correction is not reflected about the y axis.
apply_scale_unreflected(mode, initial_state, current_pos, delta_move, camera, scale) ==
    IF delta_move = VZero /\ scale = initial_state.scale
    THEN [camera |-> camera, invalidate |-> {}]
    ELSE [camera |->
              [scale |-> scale,
               level |-> get_level_at(EnginePyramid, scale),
               translation |->
                   VAdd(VSub(initial_state.translation,
                             VScale(IF "Pan" \in mode THEN VReflectY(delta_move) ELSE VZero,
                                    scale)),
                        VScale(VSub(current_pos, viewport_centre),
                               RSub(initial_state.scale, scale)))],
          invalidate |->
              (IF delta_move # VZero THEN {"Translate"} ELSE {})
                  \cup (IF scale # initial_state.scale THEN {"Zoom"} ELSE {})]

\* pan_zoom_state_2d.rs:66-97 for the clamped scale: the camera and the
\* level change if delta_move or delta_scale is not zero; Translate is
\* raised for a delta_move, Zoom for a delta_scale.
apply_scale(mode, initial_state, current_pos, delta_move, camera, scale) ==
    IF delta_move = VZero /\ scale = initial_state.scale
    THEN [camera |-> camera, invalidate |-> {}]
    ELSE [camera |->
              [scale |-> scale,
               level |-> get_level_at(EnginePyramid, scale),
               translation |->
                   VAdd(VSub(initial_state.translation,
                             VScale(IF "Pan" \in mode THEN VReflectY(delta_move) ELSE VZero,
                                    scale)),
                        VScale(VReflectY(VSub(current_pos, viewport_centre)),
                               RSub(initial_state.scale, scale)))],
          invalidate |->
              (IF delta_move # VZero THEN {"Translate"} ELSE {})
                  \cup (IF scale # initial_state.scale THEN {"Zoom"} ELSE {})]

\* A planar apply that does not look at the mode.
apply_in_any_mode(mode, initial_state, current_pos, delta_zoom, delta_move, camera) ==
    apply_scale(mode, initial_state, current_pos, delta_move, camera,
                clamp_scale(RMul(initial_state.scale,
                                 IF "Zoom" \in mode THEN delta_zoom ELSE RInt(1))))

\* PanZoomState2d::apply: nothing unless the mode has Pan or Zoom.
apply(mode, initial_state, current_pos, delta_zoom, delta_move, camera) ==
    IF mode \cap {"Pan", "Zoom"} = {}
    THEN [camera |-> camera, invalidate |-> {}]
    ELSE apply_scale(mode, initial_state, current_pos, delta_move, camera,
                     clamp_scale(RMul(initial_state.scale,
                                      IF "Zoom" \in mode THEN delta_zoom ELSE RInt(1))))

\* A call of ApplyCameraState::apply by an input system: its arguments.
NoCall == [some |-> FALSE]
SomeCall(mode, initial_state, current_pos, delta_zoom, delta_move) ==
    [some |-> TRUE, mode |-> mode, initial_state |-> initial_state,
     current_pos |-> current_pos, delta_zoom |-> delta_zoom, delta_move |-> delta_move]

\* The call made on the planar camera; no call leaves the camera alone.
apply_call(call, camera) ==
    IF call.some
    THEN apply(call.mode, call.initial_state, call.current_pos, call.delta_zoom,
               call.delta_move, camera)
    ELSE [camera |-> camera, invalidate |-> {}]

NoTime == [some |-> FALSE]
SomeTime(t) == [some |-> TRUE, at |-> t]

\* mouse.rs:34-41: the debounce has run for more than a quarter second.
debounce_expired(i) ==
    i.zoom_debounce.some /\ i.now - i.zoom_debounce.at > QuarterSecond

\* mouse.rs:70-76.
mouse_mode(buttons) ==
    IF buttons = {"Left"} THEN {"Pan"}
    ELSE IF buttons = {"Right"} THEN {"Orbit"}
    ELSE {"Zoom"}

\* mouse.rs:93-99: Translate invalidates TileModState; else Zoom starts the
\* debounce at the current time.
mouse_outcome(i, applied) ==
    [i EXCEPT
        !.camera = applied.camera,
        !.tile_mod = i.tile_mod \/ "Translate" \in applied.invalidate,
        !.zoom_debounce =
            IF "Translate" \notin applied.invalidate /\ "Zoom" \in applied.invalidate
            THEN SomeTime(i.now)
            ELSE i.zoom_debounce]

\* mouse.rs:61-91: the call of apply, with the camera's state now as the
\* initial state.
mouse_call(i, m) ==
    SomeCall(mouse_mode(m.buttons), get_initial_state(i.camera), m.cursor,
             RNorm(Rat(10 - m.wheel, 10)), m.motion)

\* mouse.rs:61-91: the update applied to the camera.
mouse_apply(i, m) == apply_call(mouse_call(i, m), i.camera)

\* mouse.rs:34-41.
mouse_debounce(i) ==
    IF debounce_expired(i)
    THEN [i EXCEPT !.zoom_debounce = NoTime, !.tile_mod = TRUE]
    ELSE i

\* input/mouse.rs, fn mouse_input_system, for the mouse input m of the frame.
mouse_input_system(i, m) == mouse_outcome(mouse_debounce(i), mouse_apply(i, m))

\* The mouse input of a frame: the sum of the wheel steps, the sum of the
\* cursor motion, the buttons held and the cursor position.
MouseInputs ==
    [wheel : {-1, 0, 1}, motion : {VZero, RVec(1, 1)},
     buttons : {{}, {"Left"}, {"Right"}}, cursor : {RVec(3, 1)}]
NoMouseInput == [wheel |-> 0, motion |-> VZero, buttons |-> {}, cursor |-> RVec(3, 1)]

\* The touches of a frame: for each finger that is down, its position.
Fingers == {1, 2}
FingerPositions(f) == IF f = 1 THEN {RVec(0, 0), RVec(1, 0)} ELSE {RVec(3, 0), RVec(4, 0)}
TouchStates ==
    UNION {[F -> UNION {FingerPositions(f) : f \in F}] : F \in SUBSET Fingers}
Touches == {t \in TouchStates : \A f \in DOMAIN t : t[f] \in FingerPositions(f)}

NoTouch == [some |-> FALSE]
SomeTouch(id, position) == [some |-> TRUE, id |-> id, position |-> position]

\* Vec2::distance_squared.
distance_squared(a, b) ==
    RAdd(RMul(RSub(a.x, b.x), RSub(a.x, b.x)), RMul(RSub(a.y, b.y), RSub(a.y, b.y)))

\* touch.rs, fn compute_centre_and_distance_squared.
compute_centre_and_distance_squared(p0, p1) ==
    [centre |-> VScale(VAdd(p0, p1), Rat(1, 2)), distance |-> distance_squared(p0, p1)]

\* touch.rs:71-100 for one touch just pressed: it fills the first slot of an
\* empty history, or the other slot if the one filled slot holds another
\* finger at another position; initial_state is then taken from the camera.
fill_history(i, id, position) ==
    IF ~i.touch_history[1].some /\ ~i.touch_history[2].some
    THEN [i EXCEPT !.touch_history[1] = SomeTouch(id, position),
                   !.initial_state = get_initial_state(i.camera)]
    ELSE IF i.touch_history[1].some /\ ~i.touch_history[2].some
            /\ i.touch_history[1].id # id /\ i.touch_history[1].position # position
         THEN [i EXCEPT !.touch_history[2] = SomeTouch(id, position),
                        !.initial_state = get_initial_state(i.camera)]
         ELSE IF i.touch_history[2].some /\ ~i.touch_history[1].some
                 /\ i.touch_history[2].id # id /\ i.touch_history[2].position # position
              THEN [i EXCEPT !.touch_history[1] = SomeTouch(id, position),
                             !.initial_state = get_initial_state(i.camera)]
              ELSE i

\* The loop of touch.rs:71-100 over the touches just pressed.
RECURSIVE fill_all(_, _)
fill_all(i, pressed) ==
    IF pressed = {}
    THEN i
    ELSE fill_all(fill_history(i, Min(pressed), i.touches[Min(pressed)]),
                  pressed \ {Min(pressed)})

\* touch.rs:59-61.
reset_history(i) ==
    IF i.just_released
    THEN [i EXCEPT !.touch_history = <<NoTouch, NoTouch>>]
    ELSE i

\* A pinch that takes the camera of the frame as its initial state.
pinch_from_current_camera(i, initial, current) ==
    SomeCall({"Pan", "Zoom"}, get_initial_state(i.camera), current.centre,
             RNorm(Rat(initial.distance.n * current.distance.d,
                       initial.distance.d * current.distance.n)),
             VSub(current.centre, initial.centre))

\* touch.rs:120-136: the pinch measured from the two touches of the history
\* to the two touches now.
pinch(i, initial, current) ==
    SomeCall({"Pan", "Zoom"}, i.initial_state, current.centre,
             RNorm(Rat(initial.distance.n * current.distance.d,
                       initial.distance.d * current.distance.n)),
             VSub(current.centre, initial.centre))

\* touch.rs:138-145: the position of the first touch of the history.
start_pos(i) ==
    IF i.touch_history[1].some
    THEN i.touch_history[1].position
    ELSE i.touch_history[2].position

\* touch.rs:137-160: the one touch now, measured from the first touch of the
\* history.
orbit(i, current_pos) ==
    SomeCall({"Orbit"}, i.initial_state, current_pos, RInt(1),
             VSub(current_pos, start_pos(i)))

\* touch.rs:102-161: two touches with a full history pinch; one touch with
\* a touch in the history orbits; else apply is not called.
touch_call(i) ==
    IF Cardinality(DOMAIN i.touches) = 2
          /\ i.touch_history[1].some /\ i.touch_history[2].some
    THEN pinch(i,
               compute_centre_and_distance_squared(
                   i.touch_history[1].position, i.touch_history[2].position),
               compute_centre_and_distance_squared(i.touches[1], i.touches[2]))
    ELSE IF Cardinality(DOMAIN i.touches) = 1
               /\ (i.touch_history[1].some \/ i.touch_history[2].some)
         THEN orbit(i, i.touches[CHOOSE f \in DOMAIN i.touches : TRUE])
         ELSE NoCall

\* touch.rs:102-161: the update applied to the planar camera, which ignores
\* the Orbit mode.
touch_apply(i) == apply_call(touch_call(i), i.camera)

\* touch.rs:163-166: any invalidation invalidates TileModState.
touch_outcome(i, applied) ==
    [i EXCEPT
        !.camera = applied.camera,
        !.tile_mod = i.tile_mod \/ applied.invalidate # {}]

touch_history_step(i) == fill_all(reset_history(i), i.just_pressed)

touch_with_history(i) == touch_outcome(i, touch_apply(i))

\* input/touch.rs, fn touch_input_system.
touch_input_system(i) ==
    IF DOMAIN i.touches = {}
    THEN reset_history(i)
    ELSE touch_with_history(touch_history_step(i))

\* The gesture a frame's touches belong to, kept for the properties: the
\* touches and the camera when the set of fingers down last changed.  A
\* gesture is "fresh" if it began with no finger down before, "changed" if
\* a finger stayed down while another one came or went.
NoGesture == [some |-> FALSE]
SomeGesture(kind, touches, camera) ==
    [some |-> TRUE, kind |-> kind, start |-> touches,
     camera |-> get_initial_state(camera)]

gesture_of(gesture, before, touches, camera) ==
    IF touches = <<>> THEN NoGesture
    ELSE IF before = <<>> THEN SomeGesture("fresh", touches, camera)
    ELSE IF DOMAIN before = DOMAIN touches THEN gesture
    ELSE IF DOMAIN before \cap DOMAIN touches # {}
         THEN SomeGesture("changed", touches, camera)
         ELSE SomeGesture("other", touches, camera)

\* The camera when the image has been added (on_add_tiled_image).
InitInput ==
    /\ inp = [now |-> 0, frames |-> 0, todo |-> {},
              camera |-> [scale |-> RNorm(fit_zoom_scale(EnginePyramid)),
                          level |-> get_level_at(EnginePyramid,
                                                 fit_zoom_scale(EnginePyramid)),
                          translation |->
                              Vec2(RNorm(Rat(get_max_size(EnginePyramid).width, 2)),
                                   RNorm(Rat(-get_max_size(EnginePyramid).height, 2)))],
              zoom_debounce |-> NoTime, tile_mod |-> TRUE,
              mouse |-> NoMouseInput,
              touches |-> <<>>, just_pressed |-> {}, just_released |-> FALSE,
              touch_history |-> <<NoTouch, NoTouch>>,
              initial_state |-> [translation |-> VZero, scale |-> RZero],
              gesture |-> NoGesture]
    /\ last = [op |-> "init"]
    /\ fn = Idle /\ eng = Idle /\ web = Idle

\* A frame begins: time has passed, the touches are those of this frame.
BeginFrame ==
    /\ inp.todo = {}
    /\ inp.frames < MaxInputFrames
    /\ \E dt \in 1 .. MaxDt, touches \in Touches, m \in MouseInputs :
          /\ touches = <<>> \/ m = NoMouseInput
          /\ inp' = [inp EXCEPT
                     !.now = inp.now + dt,
                     !.frames = inp.frames + 1,
                     !.todo = {"mouse", "touch"},
                     !.tile_mod = FALSE,
                     !.mouse = m,
                     !.touches = touches,
                     !.gesture = gesture_of(inp.gesture, inp.touches, touches,
                                            inp.camera),
                     !.just_pressed = DOMAIN touches \ DOMAIN inp.touches,
                     !.just_released = DOMAIN inp.touches \ DOMAIN touches # {}]
    /\ last' = [op |-> "frame"]
    /\ UNCHANGED <<fn, eng, web>>

\* What the history keeps of a run of an input system: the call of apply
\* and its Invalidate flags, whether the debounce expired in this run,
\* whether TileModState was invalidated before the run, the camera before
\* the run and the mouse input of the frame.
InputHist(op, call, applied, expired) ==
    [op |-> op, call |-> call, invalidate |-> applied.invalidate,
     expired |-> expired,
     was_invalidated |-> inp.tile_mod, debounce_before |-> inp.zoom_debounce,
     camera_before |-> inp.camera, input |-> inp.mouse]

MouseHist(call) ==
    InputHist("mouse", call, apply_call(call, inp.camera), debounce_expired(inp))

TouchHist(call) ==
    InputHist("touch", call, apply_call(call, inp.camera), FALSE)

MouseInputSystem ==
    /\ "mouse" \in inp.todo
    /\ inp' = [mouse_input_system(inp, inp.mouse) EXCEPT
                   !.todo = inp.todo \ {"mouse"}, !.mouse = NoMouseInput]
    /\ last' = MouseHist(mouse_call(inp, inp.mouse))
    /\ UNCHANGED <<fn, eng, web>>

TouchInputSystem ==
    /\ "touch" \in inp.todo
    /\ inp' = [touch_input_system(inp) EXCEPT !.todo = inp.todo \ {"touch"}]
    /\ last' = TouchHist(IF DOMAIN inp.touches = {}
                          THEN NoCall
                          ELSE touch_call(touch_history_step(inp)))
    /\ UNCHANGED <<fn, eng, web>>

NextInput ==
    \/ BeginFrame
    \/ MouseInputSystem
    \/ TouchInputSystem

SpecInput == InitInput /\ [][NextInput]_vars

\* C10 as stated, for the mouse wheel and the touch pinch: an update that
\* raises only Zoom does not invalidate TileModState in its frame (the mouse
\* system may do so for an earlier zoom whose debounce expired) and starts
\* the debounce at the current time; the debounce invalidates only after
\* more than a quarter second; an update that raises Translate invalidates
\* TileModState in the same frame.
C10_ZoomOnlyIsDebounced ==
    last.op \in {"mouse", "touch"} =>
        /\ (last.invalidate = {"Zoom"} /\ ~last.was_invalidated /\ ~last.expired) =>
              /\ ~inp.tile_mod
              /\ inp.zoom_debounce = SomeTime(inp.now)
        /\ last.expired => inp.now - last.debounce_before.at > QuarterSecond
        /\ "Translate" \in last.invalidate => inp.tile_mod

\* The pan and the zoom of a frame's touches measured from the touches at
\* the start of their gesture: one finger by its position, two fingers by
\* their centre and by the square of their distance.
gesture_move(g, touches) ==
    IF Cardinality(DOMAIN touches) = 1
    THEN VSub(touches[CHOOSE f \in DOMAIN touches : TRUE],
              g.start[CHOOSE f \in DOMAIN touches : TRUE])
    ELSE VSub(VScale(VAdd(touches[1], touches[2]), Rat(1, 2)),
              VScale(VAdd(g.start[1], g.start[2]), Rat(1, 2)))

gesture_zoom(g, touches) ==
    IF Cardinality(DOMAIN touches) = 1
    THEN RInt(1)
    ELSE RNorm(Rat(distance_squared(g.start[1], g.start[2]).n
                       * distance_squared(touches[1], touches[2]).d,
                   distance_squared(g.start[1], g.start[2]).d
                       * distance_squared(touches[1], touches[2]).n))

\* C11: in a touch gesture that began with no finger down before and whose
\* set of fingers has not changed since, the initial state is the camera of
\* the frame of the press, and every run of the touch system calls apply
\* with that initial state and with the move and the zoom measured from
\* the touches of the frame of the press.  With no finger down the history
\* is empty and apply is not called.
C11_DeltaFromInitialSnapshot ==
    last.op = "touch" =>
        /\ (inp.gesture.some /\ inp.gesture.kind = "fresh") =>
              /\ inp.initial_state = inp.gesture.camera
              /\ last.call.some
              /\ last.call.initial_state = inp.gesture.camera
              /\ last.call.delta_move = gesture_move(inp.gesture, inp.touches)
              /\ last.call.delta_zoom = gesture_zoom(inp.gesture, inp.touches)
        /\ ~inp.gesture.some =>
              /\ ~last.call.some
              /\ inp.touch_history = <<NoTouch, NoTouch>>

\* A pinch in the third frame of a gesture of two fingers that began with no
\* finger down: the camera has moved and the fingers are not where they
\* were pressed.
C11_Witness ==
    /\ last.op = "touch"
    /\ inp.frames = MaxInputFrames
    /\ inp.gesture.some /\ inp.gesture.kind = "fresh"
    /\ DOMAIN inp.touches = {1, 2}
    /\ inp.touches # inp.gesture.start
    /\ get_initial_state(last.camera_before) # inp.gesture.camera
    /\ "Zoom" \in last.invalidate

\* C12 as stated: when a finger comes or goes while another one stays down,
\* the initial state is the camera of the frame of the change, and the
\* touch system of that frame and of the following frames calls apply in
\* the mode of the fingers now down with that initial state.
C12_RecaptureOnContactChange ==
    (last.op = "touch" /\ inp.gesture.some /\ inp.gesture.kind = "changed") =>
        /\ inp.initial_state = inp.gesture.camera
        /\ last.call.some
        /\ last.call.initial_state = inp.gesture.camera
        /\ last.call.mode = IF Cardinality(DOMAIN inp.touches) = 2
                             THEN {"Pan", "Zoom"}
                             ELSE {"Orbit"}

\* C37 as stated: when a second finger lands while one finger is down, the
\* run of the touch system in the frame of the landing, where no finger
\* has moved since, calls apply with a zero move and the zoom 1 and leaves
\* the camera as it was, wherever the first finger was pressed.
C37_SecondContactLeavesCamera ==
    (/\ last.op = "touch"
     /\ inp.gesture.some /\ inp.gesture.kind = "changed"
     /\ DOMAIN inp.touches = {1, 2}
     /\ inp.touches = inp.gesture.start) =>
        /\ last.call.some =>
              /\ last.call.delta_move = VZero
              /\ last.call.delta_zoom = RInt(1)
        /\ inp.camera = last.camera_before

\* The same, for a first finger that has not moved since its press.
SecondContactOfRestingFinger ==
    (/\ last.op = "touch"
     /\ inp.gesture.some /\ inp.gesture.kind = "changed"
     /\ DOMAIN inp.touches = {1, 2}
     /\ inp.touches = inp.gesture.start
     /\ last.call.some
     /\ \E f \in Fingers : /\ inp.touch_history[1].id = f
                            /\ inp.touch_history[1].position = inp.touches[f]) =>
        /\ last.call.delta_move = VZero
        /\ last.call.delta_zoom = RInt(1)
        /\ inp.camera = last.camera_before

\* C13 as stated: a mouse update with the left button held and a wheel
\* signal sets the scale to the clamped product of the scale before and the
\* zoom of the wheel.
C13_ScrollWhilePanningZooms ==
    (last.op = "mouse" /\ last.input.buttons = {"Left"} /\ last.input.wheel # 0) =>
        inp.camera.scale =
            clamp_scale(RMul(last.camera_before.scale, last.call.delta_zoom))

\* The world point under a viewport position for a camera translation and
\* scale: translation + reflectY(position - viewport_centre) * scale.
world_point_under(position, translation, scale) ==
    VAdd(translation, VScale(VReflectY(VSub(position, viewport_centre)), scale))

\* A call of the planar apply that does not pan: Pan is not in the mode or
\* the move is zero.
planar_without_pan(call) ==
    /\ call.some
    /\ call.mode \cap {"Pan", "Zoom"} # {}
    /\ "Pan" \notin call.mode \/ call.delta_move = VZero

\* C15: after a planar apply that does not pan and changes the camera, the
\* world point under the cursor (the centre of the pinch) is the one that
\* was under it in the initial state of the call; for the mouse that is the
\* camera before the call.
C15_ZoomKeepsPointUnderCursor ==
    (last.op \in {"mouse", "touch"} /\ planar_without_pan(last.call)
        /\ inp.camera # last.camera_before) =>
        /\ world_point_under(last.call.current_pos, inp.camera.translation,
                             inp.camera.scale)
              = world_point_under(last.call.current_pos,
                                  last.call.initial_state.translation,
                                  last.call.initial_state.scale)
        /\ last.op = "mouse" =>
              get_initial_state(last.camera_before) = last.call.initial_state

\* A pinch about a centre away from the viewport centre whose scale is
\* clamped to the largest scale and differs from the scale before.
C15_Witness ==
    /\ last.op = "touch"
    /\ planar_without_pan(last.call)
    /\ last.invalidate = {"Zoom"}
    /\ inp.camera.scale = max_camera_zoom_scale
    /\ RMul(last.call.initial_state.scale, last.call.delta_zoom) # inp.camera.scale
    /\ last.call.current_pos.x # viewport_centre.x
    /\ last.call.current_pos.y # viewport_centre.y

\* C16 as stated: a planar apply raises Translate exactly if Pan is in the
\* mode and the move is not zero, and Zoom exactly if the scale changed.
C16_FlagsMatchPanAndZoom ==
    (last.op \in {"mouse", "touch"} /\ last.call.some) =>
        /\ "Translate" \in last.invalidate
              <=> ("Pan" \in last.call.mode /\ last.call.delta_move # VZero)
        /\ "Zoom" \in last.invalidate
              <=> inp.camera.scale # last.call.initial_state.scale

(***************************************************************************)
(* SpecZoom: the scale of the planar camera under on_add_tiled_image, the  *)
(* planar apply (mouse wheel and pinch) and keyboard_input_system, with    *)
(* the settings of AppSettings::default and images of several sizes.  The  *)
(* world size of an image is its size in pixels.  The mouse and the touch  *)
(* system run whether or not a tiled image exists; the keyboard system     *)
(* needs one.                                                              *)
(***************************************************************************)
\* AppSettings::default: min_image_size = 256.0.
min_image_size == 256
\* The logical viewport of the camera.
ZoomViewport == Size(512, 512)
\* The images added; the first is smaller than min_image_size / 4.
ZoomImageSizes == {Size(32, 16), Size(128, 64), Size(1024, 512)}
\* The updates of a behaviour.
MaxZoomSteps == 4
\* delta_zoom of a wheel step up or down (mouse.rs:61) and of a pinch that
\* halves or doubles the distance of the fingers (touch.rs:120).
ApplyDeltaZooms == {Rat(9, 10), Rat(11, 10), Rat(1, 4), Rat(4, 1)}
\* keyboard.rs:32-46: the factor of the key pressed.
KeyFactors == {Rat(9, 10), Rat(11, 10), Rat(1, 1)}

NoImage == [some |-> FALSE]
SomeImage(size) == [some |-> TRUE, size |-> size]

\* Vec2::max_element() / min_image_size (pan_zoom_state_2d.rs:59-60,
\* keyboard.rs:51-52).
max_zoom_scale_of(size) == RNorm(Rat(MaxOf(size.width, size.height), min_image_size))

\* tiled_image.rs:57-69: the scale that fits the image to the viewport.
on_add_zoom_scale(size) ==
    RMaxOf(RNorm(Rat(size.width, ZoomViewport.width)),
           RNorm(Rat(size.height, ZoomViewport.height)))

\* pan_zoom_state_2d.rs:58-64: the scale of apply in Zoom mode; the bound
\* comes from AppState::world_image_max_size.
apply_zoom_scale(z, delta_zoom) ==
    clamp_scale_to(RMul(z.scale, delta_zoom), max_zoom_scale_of(z.world_image_max_size))

\* keyboard.rs:48-58: the scale after a key; the bound comes from the image.
keyboard_zoom_scale(z, factor) ==
    clamp_scale_to(RMul(z.scale, factor), max_zoom_scale_of(z.image.size))

\* lib.rs, fn setup: Camera2d has the scale 1; AppState::default has
\* world_image_max_size = Vec2::ZERO.
InitZoom ==
    /\ fn = [op |-> "setup", image |-> NoImage, world_image_max_size |-> Size(0, 0),
             scale |-> RInt(1), initial_scale |-> RInt(1), delta_zoom |-> RInt(1),
             steps |-> 0]
    /\ eng = Idle /\ web = Idle /\ inp = Idle /\ last = Idle

\* rendering/tiled_image.rs, fn on_add_tiled_image.
OnAddTiledImage ==
    /\ fn.steps < MaxZoomSteps
    /\ \E size \in ZoomImageSizes :
          fn' = [op |-> "on_add", image |-> SomeImage(size),
                 world_image_max_size |-> size,
                 scale |-> on_add_zoom_scale(size),
                 initial_scale |-> fn.scale, delta_zoom |-> RInt(1),
                 steps |-> fn.steps + 1]
    /\ UNCHANGED <<eng, web, inp, last>>

\* PanZoomState2d::apply with Zoom in the mode, called by the mouse or the
\* touch system.
ApplyZoom ==
    /\ fn.steps < MaxZoomSteps
    /\ \E delta_zoom \in ApplyDeltaZooms :
          fn' = [fn EXCEPT !.op = "apply",
                           !.scale = apply_zoom_scale(fn, delta_zoom),
                           !.initial_scale = fn.scale,
                           !.delta_zoom = delta_zoom,
                           !.steps = fn.steps + 1]
    /\ UNCHANGED <<eng, web, inp, last>>

\* input/keyboard.rs, fn keyboard_input_system with a key pressed.
KeyboardZoom ==
    /\ fn.steps < MaxZoomSteps
    /\ fn.image.some
    /\ \E factor \in KeyFactors :
          fn' = [fn EXCEPT !.op = "keyboard",
                           !.scale = keyboard_zoom_scale(fn, factor),
                           !.initial_scale = fn.scale,
                           !.delta_zoom = factor,
                           !.steps = fn.steps + 1]
    /\ UNCHANGED <<eng, web, inp, last>>

NextZoom ==
    \/ OnAddTiledImage
    \/ ApplyZoom
    \/ KeyboardZoom

SpecZoom == InitZoom /\ [][NextZoom]_vars

\* C14 as stated, for a displayed image: after a planar apply that changes
\* the scale and after a keyboard update, the scale is the product of the
\* scale before and the zoom, bounded below by min_camera_zoom_scale and
\* above by max(image width, image height) / min_image_size, and lies
\* between these two bounds.
C14_ScaleWithinZoomBounds ==
    (/\ fn.op \in {"apply", "keyboard"}
     /\ fn.image.some
     /\ fn.op = "apply" => fn.scale # fn.initial_scale) =>
        /\ fn.scale = RMinOf(RMaxOf(RMul(fn.initial_scale, fn.delta_zoom),
                                     min_camera_zoom_scale),
                              max_zoom_scale_of(fn.image.size))
        /\ RLe(min_camera_zoom_scale, fn.scale)
        /\ RLe(fn.scale, max_zoom_scale_of(fn.image.size))

(***************************************************************************)
(* SpecOrbit: yaw and pitch of PanOrbitState3d under the Orbit mode of the *)
(* mouse (right button) and of the touch system (one finger).  Angles are  *)
(* counted in half degrees: orbit_sensitivity is half a degree per pixel   *)
(* (app_settings.rs:14), so a pixel of drag is one unit of angle.          *)
(***************************************************************************)
\* std::f32::consts::PI, TAU and FRAC_PI_2 in half degrees.
PI == 360
TAU == 2 * PI
FRAC_PI_2 == PI \div 2
\* The updates of a behaviour.
MaxOrbitSteps == 3
\* delta_move in pixels: for a touch the distance from where the finger
\* went down, for the mouse the motion of one frame.
OrbitDragsX == {-1100, -200, 0, 200, 1100}
OrbitDragsY == {-200, 0, 200, 1100}
OrbitMotions == {-200, 0, 200}

\* pan_orbit_state_3d.rs:82-93: one turn is taken off above PI, then one
\* turn is added below -PI.
wrap_once(angle) ==
    IF (IF angle > PI THEN angle - TAU ELSE angle) < -PI
    THEN (IF angle > PI THEN angle - TAU ELSE angle) + TAU
    ELSE (IF angle > PI THEN angle - TAU ELSE angle)

\* pan_orbit_state_3d.rs:69-75: the x move is reversed unless the initial
\* pitch is beyond a quarter turn.
orbit_delta_move_x(initial_state, dx) ==
    IF initial_state.pitch < -FRAC_PI_2 \/ initial_state.pitch > FRAC_PI_2
    THEN dx
    ELSE -dx

\* PanOrbitState3d::apply, the Orbit branch (pan_orbit_state_3d.rs:66-94).
orbit_apply(mode, initial_state, dx, dy, state) ==
    IF "Orbit" \in mode /\ (dx # 0 \/ dy # 0)
    THEN [yaw |-> wrap_once(initial_state.yaw + orbit_delta_move_x(initial_state, dx)),
          pitch |-> wrap_once(initial_state.pitch + dy)]
    ELSE state

\* PanOrbitState3d::default: yaw and pitch are 0; no finger is down.
InitOrbit ==
    /\ fn = [op |-> "setup", state |-> [yaw |-> 0, pitch |-> 0],
             initial_state |-> [yaw |-> 0, pitch |-> 0],
             pressed |-> FALSE, dx |-> 0, dy |-> 0, steps |-> 0]
    /\ eng = Idle /\ web = Idle /\ inp = Idle /\ last = Idle

\* touch.rs:75-78: a finger goes down with none down before; the initial
\* state is a clone of the state (PanOrbitState3d::get_initial_state).
OrbitTouchPress ==
    /\ fn.steps < MaxOrbitSteps
    /\ ~fn.pressed
    /\ fn' = [fn EXCEPT !.op = "press", !.initial_state = fn.state,
                        !.pressed = TRUE, !.dx = 0, !.dy = 0,
                        !.steps = fn.steps + 1]
    /\ UNCHANGED <<eng, web, inp, last>>

\* touch.rs:137-160: the finger that is down has moved by (dx, dy) from
\* where it went down.
OrbitTouchDrag ==
    /\ fn.steps < MaxOrbitSteps
    /\ fn.pressed
    /\ \E dx \in OrbitDragsX, dy \in OrbitDragsY :
          fn' = [fn EXCEPT !.op = "touch",
                           !.state = orbit_apply({"Orbit"}, fn.initial_state, dx, dy,
                                                 fn.state),
                           !.dx = dx, !.dy = dy,
                           !.steps = fn.steps + 1]
    /\ UNCHANGED <<eng, web, inp, last>>

\* touch.rs:59-61: the finger is lifted.
OrbitTouchRelease ==
    /\ fn.pressed
    /\ fn' = [fn EXCEPT !.op = "release", !.pressed = FALSE, !.dx = 0, !.dy = 0]
    /\ UNCHANGED <<eng, web, inp, last>>

\* mouse.rs:68-91 with the right button held: the initial state is the
\* state of this frame, the move is the motion of the frame.
OrbitMouseDrag ==
    /\ fn.steps < MaxOrbitSteps
    /\ ~fn.pressed
    /\ \E dx \in OrbitMotions, dy \in OrbitMotions :
          fn' = [fn EXCEPT !.op = "mouse",
                           !.state = orbit_apply({"Orbit"}, fn.state, dx, dy, fn.state),
                           !.initial_state = fn.state,
                           !.dx = dx, !.dy = dy,
                           !.steps = fn.steps + 1]
    /\ UNCHANGED <<eng, web, inp, last>>

NextOrbit ==
    \/ OrbitTouchPress
    \/ OrbitTouchDrag
    \/ OrbitTouchRelease
    \/ OrbitMouseDrag

SpecOrbit == InitOrbit /\ [][NextOrbit]_vars

\* Yaw and pitch within half a turn on either side, both ends included.
angles_wrapped(state) ==
    /\ -PI <= state.yaw /\ state.yaw <= PI
    /\ -PI <= state.pitch /\ state.pitch <= PI

\* C17 as stated, with the lower end of the interval allowed: after an orbit
\* update whose initial yaw and pitch lie within half a turn, yaw and pitch
\* lie within half a turn.
C17_OrbitAnglesWrapped ==
    (fn.op \in {"touch", "mouse"} /\ angles_wrapped(fn.initial_state)) =>
        angles_wrapped(fn.state)

(***************************************************************************)
(* SpecBound: translation_bounding_system on images, scales and camera     *)
(* translations of every kind: inside, outside on each side, and with an   *)
(* image thinner than the margin.  World coordinates are rationals; the    *)
(* image lies at 0 <= x <= width, -height <= y <= 0.  The system reads the *)
(* viewport through the camera, so the scale is the one the camera's       *)
(* projection has when the system runs.                                    *)
(***************************************************************************)
\* Vec2::splat(8.0) (main_camera.rs:87): the margin in viewport pixels.
margin_pixels == 8
\* The logical viewport of the camera.
BoundViewport == Size(32, 24)
BoundImages == {Size(64, 48), Size(64, 2)}
BoundScales == {Rat(1, 4), Rat(1, 1), Rat(4, 1)}
\* Camera translations: x and y are drawn from these coordinates.
BoundXs == {-200, -40, 0, 10, 30, 60, 70, 300}
BoundYs == {200, 40, 1, 0, -10, -30, -50, -300}

\* Rect::from_corners on rationals: the corners ordered by component.
rational_from_corners(a, b) ==
    [min |-> Vec2(RMinOf(a.x, b.x), RMinOf(a.y, b.y)),
     max |-> Vec2(RMaxOf(a.x, b.x), RMaxOf(a.y, b.y))]

\* TiledImage::get_world_max_size_rect: from image_to_world(0, 0) to
\* image_to_world(width, height) = (width, -height).
world_max_size_rect(size) ==
    rational_from_corners(RVec(0, 0), RVec(size.width, -size.height))

\* main_camera.rs:83-84: half the size of the viewport in world units.
viewport_half_size(scale) ==
    Vec2(RMul(RNorm(Rat(BoundViewport.width, 2)), scale),
         RMul(RNorm(Rat(BoundViewport.height, 2)), scale))

\* main_camera.rs:86-95: the x distance in the world between the viewport
\* positions (8, 8) and (0, 0).
abs_world_margin(scale) == RMul(RInt(margin_pixels), scale)

\* A bounding rectangle without the margin.
world_bounding_rect_no_margin(size, scale) ==
    rational_from_corners(
        VSub(world_max_size_rect(size).min, viewport_half_size(scale)),
        VAdd(world_max_size_rect(size).max, viewport_half_size(scale)))

\* main_camera.rs:101-104.
world_bounding_rect(size, scale) ==
    rational_from_corners(
        VSub(VAdd(world_max_size_rect(size).min,
                  Vec2(abs_world_margin(scale), abs_world_margin(scale))),
             viewport_half_size(scale)),
        VAdd(VSub(world_max_size_rect(size).max,
                  Vec2(abs_world_margin(scale), abs_world_margin(scale))),
             viewport_half_size(scale)))

\* main_camera.rs:106-112: translation.max(rect.min).min(rect.max).
bounded_translation(translation, rect) ==
    Vec2(RMinOf(RMaxOf(translation.x, rect.min.x), rect.max.x),
         RMinOf(RMaxOf(translation.y, rect.min.y), rect.max.y))

\* camera/main_camera.rs, fn translation_bounding_system.
translation_bounding_system(size, scale, translation) ==
    bounded_translation(translation, world_bounding_rect(size, scale))

InitBound ==
    /\ \E size \in BoundImages, scale \in BoundScales, x \in BoundXs, y \in BoundYs :
          fn = [op |-> "input", size |-> size, scale |-> scale,
                before |-> RVec(x, y), translation |-> RVec(x, y)]
    /\ eng = Idle /\ web = Idle /\ inp = Idle /\ last = Idle

TranslationBoundingSystem ==
    /\ fn.op = "input"
    /\ fn' = [fn EXCEPT
                 !.op = "bounded",
                 !.translation =
                     translation_bounding_system(fn.size, fn.scale, fn.translation)]
    /\ UNCHANGED <<eng, web, inp, last>>

NextBound == TranslationBoundingSystem
SpecBound == InitBound /\ [][NextBound]_vars

\* The margin and half the viewport in world units, and the image, written
\* out for the properties.
bound_margin == RMul(RInt(8), fn.scale)
bound_half_x == RMul(RInt(BoundViewport.width), RMul(fn.scale, Rat(1, 2)))
bound_half_y == RMul(RInt(BoundViewport.height), RMul(fn.scale, Rat(1, 2)))
bound_low_x == RSub(bound_margin, bound_half_x)
bound_high_x == RAdd(RSub(RInt(fn.size.width), bound_margin), bound_half_x)
bound_low_y == RSub(RAdd(RInt(-fn.size.height), bound_margin), bound_half_y)
bound_high_y == RAdd(RSub(RZero, bound_margin), bound_half_y)

\* The camera centre lies in the image rectangle shrunk by the margin and
\* grown by half the viewport.
centre_is_bounded(t) ==
    /\ RLe(bound_low_x, t.x) /\ RLe(t.x, bound_high_x)
    /\ RLe(bound_low_y, t.y) /\ RLe(t.y, bound_high_y)

\* The length of the overlap of the viewport and the image along x and y.
overlap_x(t) ==
    RSub(RMinOf(RAdd(t.x, bound_half_x), RInt(fn.size.width)),
         RMaxOf(RSub(t.x, bound_half_x), RZero))
overlap_y(t) ==
    RSub(RMinOf(RAdd(t.y, bound_half_y), RZero),
         RMaxOf(RSub(t.y, bound_half_y), RInt(-fn.size.height)))

\* C18 as stated: after the system the centre is bounded, the viewport and
\* the image overlap by at least the margin along x and along y, and a
\* translation that was bounded is unchanged.
C18_AsStated ==
    fn.op = "bounded" =>
        /\ centre_is_bounded(fn.translation)
        /\ RLe(bound_margin, overlap_x(fn.translation))
        /\ RLe(bound_margin, overlap_y(fn.translation))
        /\ centre_is_bounded(fn.before) => fn.translation = fn.before

\* C18: after the system the centre is bounded, so the viewport reaches at
\* least the margin past the near edge of the image on every side, and the
\* viewport and the image overlap along each axis by at least the margin or
\* by the whole extent of the image if that is smaller; a translation that
\* was bounded is unchanged.
C18_TranslationBounded ==
    fn.op = "bounded" =>
        /\ centre_is_bounded(fn.translation)
        /\ RLe(bound_margin, RAdd(fn.translation.x, bound_half_x))
        /\ RLe(RSub(fn.translation.x, bound_half_x),
               RSub(RInt(fn.size.width), bound_margin))
        /\ RLe(RAdd(RInt(-fn.size.height), bound_margin),
               RAdd(fn.translation.y, bound_half_y))
        /\ RLe(RSub(fn.translation.y, bound_half_y), RSub(RZero, bound_margin))
        /\ RLe(RMinOf(bound_margin, RInt(fn.size.width)), overlap_x(fn.translation))
        /\ RLe(RMinOf(bound_margin, RInt(fn.size.height)), overlap_y(fn.translation))
        /\ centre_is_bounded(fn.before) => fn.translation = fn.before

\* A translation outside the bound in x and in y that the system moved, for
\* an image thinner than the margin.
C18_Witness ==
    /\ fn.op = "bounded"
    /\ fn.translation.x # fn.before.x
    /\ fn.translation.y # fn.before.y
    /\ ~RLe(bound_margin, RInt(fn.size.height))

\* ------------------------------------------------------------------------
\* The image description and the construction of the pyramid descriptor
\* (iiif/image.rs, iiif/image_v2.rs, iiif/image_v3.rs and
\* rendering/tiled_image.rs, fn try_from_json).
\* ------------------------------------------------------------------------

\* The longest profile list of a version 2 description.
MaxProfiles == 2

SomeValue(value) == [some |-> TRUE, value |-> value]
Ok(value) == [ok |-> TRUE, value |-> value]
Err(msg) == [ok |-> FALSE, msg |-> msg]

\* IiifFeature, the members that matter for the tiling decision and two
\* that do not.
IiifFeatures == {"RegionByPx", "SizeByWh", "SizeByWhListed", "Cors"}

\* struct IiifTileInfo.
IiifTileInfo(width, height, scale_factors) ==
    [width |-> width, height |-> height, scale_factors |-> scale_factors]

\* struct IiifProfileDetails of version 2 (optional fields) and of version 3.
IiifProfileDetails(formats, supports) == [formats |-> formats, supports |-> supports]

\* enum IiifProfileInfo of version 2.
Url(url) == [url |-> TRUE, value |-> url]
ProfileDetails(details) == [url |-> FALSE, value |-> details]

\* The compliance levels: image_v2.rs, fn from_url and image_v3.rs,
\* TryFrom<&str> for IiifProfileDetails.  The features are those of
\* IiifFeatures that the level lists.
level_profile(level) ==
    CASE level = "level0" ->
            Ok([formats |-> <<"jpg">>, supports |-> {"SizeByWhListed"}])
      [] level = "level1" ->
            Ok([formats |-> <<"jpg">>,
                supports |-> {"SizeByWhListed", "Cors", "RegionByPx"}])
      [] level = "level2" ->
            Ok([formats |-> <<"jpg", "png">>,
                supports |-> {"SizeByWhListed", "Cors", "RegionByPx", "SizeByWh"}])
      [] OTHER -> Err("unexpected profile")

\* image_v2.rs, get_formats and get_supported_features of a profile with
\* optional fields: an absent field is an empty list.
expand_details_v2(details) ==
    [formats |-> IF details.formats.some THEN details.formats.value ELSE <<>>,
     supports |-> IF details.supports.some THEN details.supports.value ELSE {}]

RECURSIVE expand_profiles_v2(_)
\* image_v2.rs, TryFrom<IiifImageInfo> for ImageInfo: the loop over the
\* profile list, failing at the first unknown url.
expand_profiles_v2(profiles) ==
    IF profiles = <<>> THEN Ok(<<>>)
    ELSE LET p == Head(profiles)
             first == IF p.url THEN level_profile(p.value)
                      ELSE Ok(expand_details_v2(p.value))
             rest == expand_profiles_v2(Tail(profiles))
         IN  IF ~first.ok THEN first
             ELSE IF ~rest.ok THEN rest
             ELSE Ok(<<first.value>> \o rest.value)

\* image_v2.rs, TryFrom<IiifImageInfo> for ImageInfo.
image_info_v2(json) ==
    IF json.profile = <<>> THEN Err("Missing profile")
    ELSE LET expanded == expand_profiles_v2(json.profile)
         IN  IF ~expanded.ok THEN expanded
             ELSE Ok([iiif_image_info |-> json, expanded_profiles |-> expanded.value])

\* image_v3.rs, TryFrom<IiifImageInfo> for ImageInfo.
image_info_v3(json) ==
    LET level == level_profile(json.profile)
    IN  IF ~level.ok THEN level
        ELSE Ok([iiif_image_info |-> json,
                 expanded_profiles |->
                     <<level.value,
                       [formats |-> IF json.extra_formats.some
                                    THEN json.extra_formats.value ELSE <<>>,
                        supports |-> IF json.extra_features.some
                                     THEN json.extra_features.value ELSE {}]>>])

\* iiif/image.rs, IiifImageInfo::try_from_json: the untagged choice between
\* the two versions, an error for a payload that is neither.
IiifImageInfo_try_from_json(json) ==
    CASE json.version = 3 -> image_info_v3(json)
      [] json.version = 2 -> image_info_v2(json)
      [] OTHER -> Err("json error")

\* The width of the word that stands for u32, and the number of its values.
WordBits == 16
WordModulus == 2 ^ WordBits

\* u32 multiplication as the release build does it: the product wraps.
wrapping_mul(a, b) == (a * b) % WordModulus

\* The u32 product a.width * a.height used as sort key.
area_key(size) == wrapping_mul(size.width, size.height)

RECURSIVE insert_by_area(_, _)
\* One step of the stable sort: size goes after every element whose key is
\* not larger.
insert_by_area(sorted, size) ==
    IF sorted = <<>> THEN <<size>>
    ELSE IF area_key(Head(sorted)) <= area_key(size)
         THEN <<Head(sorted)>> \o insert_by_area(Tail(sorted), size)
         ELSE <<size>> \o sorted

RECURSIVE sort_by_area(_)
\* slice::sort_by with the area as key (stable).
sort_by_area(sizes) ==
    IF sizes = <<>> THEN <<>>
    ELSE insert_by_area(sort_by_area(SubSeq(sizes, 1, Len(sizes) - 1)),
                        sizes[Len(sizes)])

\* get_width and get_height as one size.
full_size(info) == Size(info.iiif_image_info.width, info.iiif_image_info.height)

\* image_v2.rs and image_v3.rs, fn get_tile_size.
default_tile_size == Size(512, 512)
get_tile_size(info) ==
    LET tiles == info.iiif_image_info.tiles
    IN  IF tiles.some /\ tiles.value # <<>>
        THEN LET x == Head(tiles.value)
             IN  Size(x.width, IF x.height.some THEN x.height.value ELSE x.width)
        ELSE default_tile_size

\* image_v2.rs and image_v3.rs, fn get_tile_scaling_sizes.
get_tile_scaling_sizes(info) ==
    LET tiles == info.iiif_image_info.tiles
        default_size == full_size(info)
        scaling_sizes ==
            IF tiles.some /\ tiles.value # <<>>
            THEN LET factors == Head(tiles.value).scale_factors
                 IN  [k \in 1..Len(factors) |->
                         Size(default_size.width \div factors[k],
                              default_size.height \div factors[k])]
            ELSE <<>>
        pushed ==
            IF \E k \in 1..Len(scaling_sizes) : scaling_sizes[k] = default_size
            THEN scaling_sizes
            ELSE Append(scaling_sizes, default_size)
    IN  sort_by_area(pushed)

\* image_v2.rs and image_v3.rs, fn get_optional_sizes.
get_optional_sizes(info) ==
    LET sizes == info.iiif_image_info.sizes
        default_size == full_size(info)
        image_sizes ==
            IF sizes.some
            THEN IF \E k \in 1..Len(sizes.value) : sizes.value[k] = default_size
                 THEN sizes.value
                 ELSE Append(sizes.value, default_size)
            ELSE <<default_size>>
    IN  sort_by_area(image_sizes)

\* tiled_image.rs, fn try_from_json: the features of all profiles.
supported_features_of(info) ==
    UNION {info.expanded_profiles[k].supports : k \in 1..Len(info.expanded_profiles)}

\* tiled_image.rs, fn try_from_json: the condition for tiling.
tiling_supported(supported_features) ==
    "RegionByPx" \in supported_features /\ "SizeByWh" \in supported_features

\* tiled_image.rs, fn try_from_json: the first format of the first profile.
image_format_of(info) ==
    IF info.expanded_profiles = <<>> THEN Err("missing profile")
    ELSE IF Head(info.expanded_profiles).formats = <<>>
         THEN Err("missing image format")
         ELSE Ok(Head(Head(info.expanded_profiles).formats))

\* tiled_image.rs, fn try_from_json.
try_from_json(json, iiif_endpoint) ==
    LET parsed == IiifImageInfo_try_from_json(json)
    IN  IF ~parsed.ok THEN parsed
        ELSE LET iiif_image_info == parsed.value
                 supported_features == supported_features_of(iiif_image_info)
                 tiling == tiling_supported(supported_features)
                 tile_size == IF tiling THEN get_tile_size(iiif_image_info)
                              ELSE full_size(iiif_image_info)
                 levels == IF tiling THEN get_tile_scaling_sizes(iiif_image_info)
                           ELSE <<tile_size>>
                 image_format == image_format_of(iiif_image_info)
             IN  IF ~image_format.ok THEN image_format
                 ELSE Ok([iiif_endpoint |-> iiif_endpoint,
                          tile_size |-> tile_size,
                          levels |-> levels,
                          image_format |-> image_format.value,
                          supported_features |-> supported_features,
                          optional_sizes |-> get_optional_sizes(iiif_image_info)])

\* The descriptions the construction is applied to.
InfoSizes == {Size(128, 96), Size(30, 20)}
InfoOptionalSizes == {None, SomeValue(<<Size(15, 10)>>)}
InfoTiles ==
    {None,
     SomeValue(<<>>),
     SomeValue(<<IiifTileInfo(64, None, <<1, 2, 4>>)>>),
     SomeValue(<<IiifTileInfo(64, SomeValue(32), <<2, 4>>)>>)}
InfoProfileEntries ==
    {Url("level0"), Url("level1"), Url("level2"), Url("other"),
     ProfileDetails(IiifProfileDetails(None, None)),
     ProfileDetails(IiifProfileDetails(SomeValue(<<"jpg">>), SomeValue({"RegionByPx"}))),
     ProfileDetails(IiifProfileDetails(SomeValue(<<"png">>), SomeValue({"RegionByPx", "SizeByWh"}))),
     ProfileDetails(IiifProfileDetails(None, SomeValue({"RegionByPx", "SizeByWh"})))}
InfoProfiles == UNION {[1..n -> InfoProfileEntries] : n \in 0..MaxProfiles}
InfoLevels == {"level0", "level1", "level2", "other"}
InfoExtraFormats == {None, SomeValue(<<"png">>)}
InfoExtraFeatures ==
    {None, SomeValue({"RegionByPx"}), SomeValue({"SizeByWh"}), SomeValue({"RegionByPx", "SizeByWh"})}

InfoJsonsV2 ==
    {[version |-> 2, width |-> size.width, height |-> size.height,
      sizes |-> sizes, tiles |-> tiles, profile |-> profile] :
        size \in InfoSizes, sizes \in InfoOptionalSizes, tiles \in InfoTiles,
        profile \in InfoProfiles}
InfoJsonsV3 ==
    {[version |-> 3, width |-> size.width, height |-> size.height,
      sizes |-> sizes, tiles |-> tiles, profile |-> level,
      extra_formats |-> formats, extra_features |-> features] :
        size \in InfoSizes, sizes \in InfoOptionalSizes, tiles \in InfoTiles,
        level \in InfoLevels, formats \in InfoExtraFormats,
        features \in InfoExtraFeatures}
InfoJsonsMalformed == {[version |-> 0]}

InitInfo ==
    /\ \E json \in InfoJsonsV2 \cup InfoJsonsV3 \cup InfoJsonsMalformed :
          fn = [op |-> "setup", json |-> json]
    /\ eng = Idle /\ web = Idle /\ inp = Idle /\ last = Idle

\* TiledImage::try_from_json applied to a version 2 description.
TryFromJsonV2 ==
    /\ fn.op = "setup" /\ fn.json.version = 2
    /\ fn' = [op |-> "try_from_json", json |-> fn.json,
              result |-> try_from_json(fn.json, "endpoint")]
    /\ UNCHANGED <<eng, web, inp, last>>

\* TiledImage::try_from_json applied to a version 3 description.
TryFromJsonV3 ==
    /\ fn.op = "setup" /\ fn.json.version = 3
    /\ fn' = [op |-> "try_from_json", json |-> fn.json,
              result |-> try_from_json(fn.json, "endpoint")]
    /\ UNCHANGED <<eng, web, inp, last>>

\* TiledImage::try_from_json applied to a payload that is no description.
TryFromJsonMalformed ==
    /\ fn.op = "setup" /\ fn.json.version = 0
    /\ fn' = [op |-> "try_from_json", json |-> fn.json,
              result |-> try_from_json(fn.json, "endpoint")]
    /\ UNCHANGED <<eng, web, inp, last>>

NextInfo ==
    \/ TryFromJsonV2
    \/ TryFromJsonV3
    \/ TryFromJsonMalformed

SpecInfo == InitInfo /\ [][NextInfo]_vars

\* What the description states, read from the payload itself: the features
\* of its profiles, whether its first profile names a format, its tiles.
json_names_profiles(json) ==
    CASE json.version = 3 -> json.profile # "other"
      [] json.version = 2 ->
            /\ json.profile # <<>>
            /\ \A k \in 1..Len(json.profile) :
                  json.profile[k].url => json.profile[k].value # "other"
      [] OTHER -> FALSE
json_entry_features(p) ==
    IF p.url
    THEN CASE p.value = "level0" -> {"SizeByWhListed"}
           [] p.value = "level1" -> {"SizeByWhListed", "Cors", "RegionByPx"}
           [] OTHER -> {"SizeByWhListed", "Cors", "RegionByPx", "SizeByWh"}
    ELSE IF p.value.supports.some THEN p.value.supports.value ELSE {}
json_features(json) ==
    IF json.version = 3
    THEN json_entry_features(Url(json.profile))
         \cup (IF json.extra_features.some THEN json.extra_features.value ELSE {})
    ELSE UNION {json_entry_features(json.profile[k]) : k \in 1..Len(json.profile)}
json_names_format(json) ==
    IF json.version = 3 THEN TRUE
    ELSE \/ Head(json.profile).url
         \/ /\ Head(json.profile).value.formats.some
            /\ Head(json.profile).value.formats.value # <<>>
json_has_both(json) ==
    "RegionByPx" \in json_features(json) /\ "SizeByWh" \in json_features(json)
json_full_size(json) == Size(json.width, json.height)

\* The descriptor that the description calls for: a descriptor is returned
\* with the features of the description; without both RegionByPx and
\* SizeByWh it has the full image size as its only level and as its tile
\* size; a level list or a tile size that differs from the full image size
\* occurs with both features only, and then they are the advertised ones.
descriptor_follows_features(json, result) ==
    /\ result.ok
    /\ result.value.supported_features = json_features(json)
    /\ ~json_has_both(json) =>
          /\ result.value.levels = <<json_full_size(json)>>
          /\ result.value.tile_size = json_full_size(json)
    /\ (\/ result.value.levels # <<json_full_size(json)>>
        \/ result.value.tile_size # json_full_size(json)) =>
          /\ json_has_both(json)
          /\ result.value.tile_size =
                get_tile_size(IiifImageInfo_try_from_json(json).value)
          /\ result.value.levels =
                get_tile_scaling_sizes(IiifImageInfo_try_from_json(json).value)

\* C20 as stated: for every description with known profiles, whatever its
\* features are, try_from_json returns a descriptor; without both RegionByPx
\* and SizeByWh the descriptor has exactly one level, the full image size,
\* and the full image size as tile size; the advertised tile size and
\* levels are used only when both features are present.
C20_WholeImageWithoutTiling ==
    (fn.op = "try_from_json" /\ json_names_profiles(fn.json)) =>
        descriptor_follows_features(fn.json, fn.result)

\* The same for the descriptions whose first profile names a format.
WholeImageWithoutTilingGivenFormat ==
    (fn.op = "try_from_json" /\ json_names_profiles(fn.json)
                             /\ json_names_format(fn.json)) =>
        descriptor_follows_features(fn.json, fn.result)

\* Every profile url of the description is a known compliance level.
json_profile_urls_known(json) ==
    CASE json.version = 3 -> json.profile # "other"
      [] json.version = 2 ->
            \A k \in 1..Len(json.profile) :
                json.profile[k].url => json.profile[k].value # "other"
      [] OTHER -> FALSE

\* The tile entry the description advertises, if any.
json_has_tile(json) == json.tiles.some /\ json.tiles.value # <<>>
json_first_tile(json) == Head(json.tiles.value)

\* C21 as stated: for every description with known profile urls, whatever
\* tile or profile metadata it lacks, a descriptor is returned (a missing
\* profile or image format is replaced by a default); when tiling is used,
\* the tile size is 512x512 without a tiles entry, and a tile entry without
\* a height has its width as height.
C21_MissingMetadataFallsBack ==
    (fn.op = "try_from_json" /\ json_profile_urls_known(fn.json)) =>
        /\ fn.result.ok
        /\ (json_has_both(fn.json) /\ ~json_has_tile(fn.json)) =>
              fn.result.value.tile_size = Size(512, 512)
        /\ (json_has_both(fn.json) /\ json_has_tile(fn.json)
                                   /\ ~json_first_tile(fn.json).height.some) =>
              fn.result.value.tile_size =
                  Size(json_first_tile(fn.json).width, json_first_tile(fn.json).width)

\* The tile part of C21 alone, for the descriptors that are returned.
TileSizeFallsBack ==
    (fn.op = "try_from_json" /\ fn.result.ok /\ json_has_both(fn.json)) =>
        /\ ~json_has_tile(fn.json) => fn.result.value.tile_size = Size(512, 512)
        /\ (json_has_tile(fn.json) /\ ~json_first_tile(fn.json).height.some) =>
              fn.result.value.tile_size =
                  Size(json_first_tile(fn.json).width, json_first_tile(fn.json).width)

\* ------------------------------------------------------------------------
\* The manifest models (iiif/manifest_v2.rs, iiif/manifest_v3.rs): the
\* lookups by index.
\* ------------------------------------------------------------------------

\* The longest list of a manifest and the largest index looked up.
MaxItems == 2
MaxIndex == 3

\* IiifError::IiifMissingInfo(format!("... at pos '{}'", index)).
IiifMissingInfo(msg, index) ==
    [ok |-> FALSE, kind |-> "IiifMissingInfo", msg |-> msg, index |-> index]

\* slice::get(index) with an index that counts from 0.
slice_get(list, index) ==
    IF index < Len(list) THEN SomeValue(list[index + 1]) ELSE None

\* Option::ok_or.
ok_or(option, err) == IF option.some THEN Ok(option.value) ELSE err

\* manifest_v2.rs: fn get_sequence, fn get_canvas, fn get_image.
get_sequence_v2(manifest, index) ==
    ok_or(slice_get(manifest.sequences, index),
          IiifMissingInfo("sequence not found at pos", index))
get_canvas_v2(sequence, index) ==
    ok_or(slice_get(sequence.canvases, index),
          IiifMissingInfo("canvas not found at pos", index))
get_image_v2(canvas, index) ==
    ok_or(slice_get(canvas.images, index),
          IiifMissingInfo("missing image at pos", index))

\* manifest_v3.rs: fn get_sequences (the manifest is its only sequence),
\* fn get_sequence, fn get_canvas, fn get_image.
get_sequences_v3(manifest) == <<manifest>>
get_sequence_v3(manifest, index) == Ok(manifest)
get_canvas_v3(manifest, index) ==
    ok_or(slice_get(manifest.items, index),
          IiifMissingInfo("canvas not found at pos", index))
get_image_v3(canvas, index) ==
    LET page == slice_get(canvas.items, index)
    IN  IF ~page.some THEN IiifMissingInfo("missing annotation page at pos", index)
        ELSE ok_or(slice_get(page.value.items, 0),
                   IiifMissingInfo("missing annotation item at pos", index))

\* The lists of at most MaxItems elements of a set.
ListsOf(S) == UNION {[1..n -> S] : n \in 0..MaxItems}

\* The manifests the lookups are applied to.
ImagesV2 == {[service |-> "a"], [service |-> "b"]}
CanvasesV2 == {[images |-> images] : images \in ListsOf(ImagesV2)}
SequencesV2 == {[canvases |-> canvases] : canvases \in ListsOf({c \in CanvasesV2 : Len(c.images) <= 1})}
ManifestsV2 == {[version |-> 2, sequences |-> sequences] :
                    sequences \in ListsOf({q \in SequencesV2 : Len(q.canvases) <= 1})}
AnnotationPagesV3 == {[items |-> items] : items \in ListsOf(ImagesV2)}
CanvasItemsV3 == {[items |-> pages] : pages \in ListsOf({g \in AnnotationPagesV3 : Len(g.items) <= 1})}
ManifestsV3 == {[version |-> 3, items |-> items] :
                    items \in ListsOf({c \in CanvasItemsV3 : Len(c.items) <= 1})}
LookupIndexes == 0..MaxIndex

\* The state of a lookup: the operation, the version, the list looked into,
\* the index and the result.
Lookup(op, version, list, index, result) ==
    [op |-> op, version |-> version, list |-> list, index |-> index, result |-> result]

InitManifest ==
    /\ \E manifest \in ManifestsV2 \cup ManifestsV3 :
          fn = [op |-> "setup", manifest |-> manifest]
    /\ eng = Idle /\ web = Idle /\ inp = Idle /\ last = Idle

\* IsManifest::get_sequence.
GetSequence ==
    /\ fn.op = "setup"
    /\ \E index \in LookupIndexes :
          fn' = IF fn.manifest.version = 2
                THEN Lookup("get_sequence", 2, fn.manifest.sequences, index,
                            get_sequence_v2(fn.manifest, index))
                ELSE Lookup("get_sequence", 3, get_sequences_v3(fn.manifest), index,
                            get_sequence_v3(fn.manifest, index))
    /\ UNCHANGED <<eng, web, inp, last>>

\* IsSequence::get_canvas on a sequence of the manifest.
GetCanvas ==
    /\ fn.op = "setup"
    /\ \E at \in LookupIndexes, index \in LookupIndexes :
          IF fn.manifest.version = 2
          THEN /\ get_sequence_v2(fn.manifest, at).ok
               /\ fn' = Lookup("get_canvas", 2,
                               get_sequence_v2(fn.manifest, at).value.canvases, index,
                               get_canvas_v2(get_sequence_v2(fn.manifest, at).value, index))
          ELSE fn' = Lookup("get_canvas", 3, fn.manifest.items, index,
                            get_canvas_v3(get_sequence_v3(fn.manifest, at).value, index))
    /\ UNCHANGED <<eng, web, inp, last>>

\* The canvases of a manifest, of all its sequences.
canvases_of(manifest) ==
    IF manifest.version = 2
    THEN UNION {{manifest.sequences[k].canvases[j] :
                    j \in 1..Len(manifest.sequences[k].canvases)} :
                k \in 1..Len(manifest.sequences)}
    ELSE {manifest.items[k] : k \in 1..Len(manifest.items)}

\* IsCanvas::get_image on a canvas of the manifest.
GetImage ==
    /\ fn.op = "setup"
    /\ \E canvas \in canvases_of(fn.manifest), index \in LookupIndexes :
          fn' = IF fn.manifest.version = 2
                THEN Lookup("get_image", 2, canvas.images, index,
                            get_image_v2(canvas, index))
                ELSE Lookup("get_image", 3, canvas.items, index,
                            get_image_v3(canvas, index))
    /\ UNCHANGED <<eng, web, inp, last>>

NextManifest ==
    \/ GetSequence
    \/ GetCanvas
    \/ GetImage

SpecManifest == InitManifest /\ [][NextManifest]_vars

is_lookup == fn.op \in {"get_sequence", "get_canvas", "get_image"}
is_missing_info(result) ==
    /\ ~result.ok
    /\ result.kind = "IiifMissingInfo"
    /\ result.index = fn.index

\* C22 as stated: in both versions, get_sequence, get_canvas and get_image
\* with an index outside the list return an IiifMissingInfo error that names
\* the index.
C22_OutOfRangeIsMissingInfo ==
    (is_lookup /\ fn.index >= Len(fn.list)) => is_missing_info(fn.result)

\* What the lookups do: get_canvas and get_image of both versions and
\* get_sequence of version 2 return an IiifMissingInfo error that names the
\* index for every index outside the list, and the element at the index
\* inside it (in version 3 the first annotation of the page at the index, or
\* an IiifMissingInfo error when the page is empty); get_sequence of version
\* 3 returns the manifest itself for every index.
LookupsByVersion ==
    is_lookup =>
        IF fn.op = "get_sequence" /\ fn.version = 3
        THEN fn.result.ok /\ fn.result.value.version = 3
        ELSE /\ fn.index >= Len(fn.list) => is_missing_info(fn.result)
             /\ fn.index < Len(fn.list) =>
                   IF fn.op = "get_image" /\ fn.version = 3
                   THEN IF fn.list[fn.index + 1].items = <<>>
                        THEN is_missing_info(fn.result)
                        ELSE /\ fn.result.ok
                             /\ fn.result.value = fn.list[fn.index + 1].items[1]
                   ELSE fn.result.ok /\ fn.result.value = fn.list[fn.index + 1]

\* ------------------------------------------------------------------------
\* The conversions between world and image space
\* (rendering/tiled_image.rs, fn world_to_image and fn image_to_world).
\* ------------------------------------------------------------------------

\* The largest coordinate of a point.
MaxCoord == 2
Coords == (-MaxCoord)..MaxCoord

InitConv ==
    /\ \E x \in Coords, y \in Coords, z \in Coords :
          fn = [op |-> "setup", p |-> Vec3(x, y, z)]
    /\ eng = Idle /\ web = Idle /\ inp = Idle /\ last = Idle

\* image_to_world(world_to_image(p)) for the world point p.
WorldToImageAndBack ==
    /\ fn.op = "setup"
    /\ fn' = [op |-> "world", p |-> fn.p,
              there |-> world_to_image(fn.p),
              back |-> image_to_world(world_to_image(fn.p))]
    /\ UNCHANGED <<eng, web, inp, last>>

\* world_to_image(image_to_world(q)) for the image point q = (p.x, p.y).
ImageToWorldAndBack ==
    /\ fn.op = "setup"
    /\ fn' = [op |-> "image", p |-> truncate(fn.p),
              there |-> image_to_world(truncate(fn.p)),
              back |-> world_to_image(image_to_world(truncate(fn.p)))]
    /\ UNCHANGED <<eng, web, inp, last>>

NextConv ==
    \/ WorldToImageAndBack
    \/ ImageToWorldAndBack

SpecConv == InitConv /\ [][NextConv]_vars

\* C23 as stated: both round trips return the point they started from, for
\* every world point, whatever its z, and every image point.
C23_AsStated ==
    fn.op \in {"world", "image"} => fn.back = fn.p

\* C23: the conversions only reflect the vertical axis, world_to_image
\* drops z and image_to_world sets z to 0; image_to_world(world_to_image(p))
\* is p with z = 0, hence p for every world point in the plane z = 0, and
\* world_to_image(image_to_world(q)) is q for every image point.
C23_RoundTripInThePlane ==
    /\ fn.op = "world" =>
          /\ fn.there = Vec2(fn.p.x, -fn.p.y)
          /\ fn.back = Vec3(fn.p.x, fn.p.y, 0)
          /\ fn.p.z = 0 => fn.back = fn.p
    /\ fn.op = "image" =>
          /\ fn.there = Vec3(fn.p.x, -fn.p.y, 0)
          /\ fn.back = fn.p

\* A world point of the plane z = 0 off the horizontal axis, taken to image
\* space and back.
C23_Witness ==
    /\ fn.op = "world"
    /\ fn.p.z = 0
    /\ fn.p.y # 0
    /\ fn.p.x # 0
    /\ fn.back = fn.p

\* ------------------------------------------------------------------------
\* The level list of an image description
\* (iiif/image_v2.rs and iiif/image_v3.rs, fn get_tile_scaling_sizes).
\* u32 is a word of WordBits bits.
\* ------------------------------------------------------------------------

\* The longest list of scale factors.
MaxFactors == 2
LevelWidths == {0, 1, 3, 255, 256, 300}
LevelHeights == {1, 2, 256}
LevelFactors == {0, 1, 2, 4}
LevelFactorLists == UNION {[1..n -> LevelFactors] : n \in 0..MaxFactors}

\* The description of an image with one tile entry, or none.
level_info(width, height, factors) ==
    [iiif_image_info |->
        [width |-> width, height |-> height, sizes |-> None,
         tiles |-> IF factors.some
                   THEN SomeValue(<<IiifTileInfo(64, None, factors.value)>>)
                   ELSE None],
     expanded_profiles |-> <<>>]

\* The sizes before the sort: the scaled sizes and, if it is not among
\* them, the full size.
sizes_to_sort(width, height, factors) ==
    LET scaled == IF factors.some
                  THEN [k \in 1..Len(factors.value) |->
                           Size(width \div factors.value[k], height \div factors.value[k])]
                  ELSE <<>>
    IN  IF \E k \in 1..Len(scaled) : scaled[k] = Size(width, height)
        THEN scaled
        ELSE Append(scaled, Size(width, height))

\* The outcomes of get_tile_scaling_sizes: a division by a scale factor 0
\* panics; a product width * height beyond u32 panics in a build with
\* overflow checks and wraps in a build without, when the sort compares at
\* least two sizes.
tile_scaling_sizes_outcome(width, height, factors, overflow_checks) ==
    IF factors.some /\ \E k \in 1..Len(factors.value) : factors.value[k] = 0
    THEN [panic |-> TRUE, msg |-> "attempt to divide by zero"]
    ELSE LET sizes == sizes_to_sort(width, height, factors)
         IN  IF /\ overflow_checks
                /\ Len(sizes) >= 2
                /\ \E k \in 1..Len(sizes) :
                      sizes[k].width * sizes[k].height >= WordModulus
             THEN [panic |-> TRUE, msg |-> "attempt to multiply with overflow"]
             ELSE [panic |-> FALSE,
                   levels |-> get_tile_scaling_sizes(level_info(width, height, factors))]

InitLevels ==
    /\ \E width \in LevelWidths, height \in LevelHeights,
          factors \in {None} \cup {SomeValue(f) : f \in LevelFactorLists},
          overflow_checks \in BOOLEAN, version \in {2, 3} :
          fn = [op |-> "setup", version |-> version, width |-> width,
                height |-> height, factors |-> factors,
                overflow_checks |-> overflow_checks]
    /\ eng = Idle /\ web = Idle /\ inp = Idle /\ last = Idle

\* image_v2.rs, fn get_tile_scaling_sizes.
GetTileScalingSizesV2 ==
    /\ fn.op = "setup" /\ fn.version = 2
    /\ fn' = [fn EXCEPT !.op = "levels"] @@
             [result |-> tile_scaling_sizes_outcome(fn.width, fn.height, fn.factors,
                                                    fn.overflow_checks)]
    /\ UNCHANGED <<eng, web, inp, last>>

\* image_v3.rs, fn get_tile_scaling_sizes (the same code).
GetTileScalingSizesV3 ==
    /\ fn.op = "setup" /\ fn.version = 3
    /\ fn' = [fn EXCEPT !.op = "levels"] @@
             [result |-> tile_scaling_sizes_outcome(fn.width, fn.height, fn.factors,
                                                    fn.overflow_checks)]
    /\ UNCHANGED <<eng, web, inp, last>>

NextLevels ==
    \/ GetTileScalingSizesV2
    \/ GetTileScalingSizesV3

SpecLevels == InitLevels /\ [][NextLevels]_vars

\* The level list is not empty, ascending by the area width * height, and
\* ends with the full size.
levels_ascending_to_full(levels, width, height) ==
    /\ levels # <<>>
    /\ \A k \in 1..(Len(levels) - 1) :
          levels[k].width * levels[k].height
              <= levels[k + 1].width * levels[k + 1].height
    /\ levels[Len(levels)] = Size(width, height)

\* C24 as stated: for every width and height of the word, also when the
\* area does not fit the word, and every list of scale factors, a level list
\* is returned that is not empty, ascending by area and ends with the full
\* size.
C24_LevelsAscendingToFull ==
    fn.op = "levels" =>
        /\ ~fn.result.panic
        /\ levels_ascending_to_full(fn.result.levels, fn.width, fn.height)

\* The same for the images of positive width whose area fits the word and
\* whose scale factors are positive.
LevelsAscendingWithinWord ==
    (/\ fn.op = "levels"
     /\ fn.width >= 1
     /\ fn.width * fn.height < WordModulus
     /\ fn.factors.some => \A k \in 1..Len(fn.factors.value) : fn.factors.value[k] >= 1) =>
        /\ ~fn.result.panic
        /\ levels_ascending_to_full(fn.result.levels, fn.width, fn.height)

\* ------------------------------------------------------------------------
\* The URL builder (rendering/tiled_image.rs, fn get_image_url).
\* A URL is the sequence of its path segments; a region token is the word
\* full or the list of its four numbers.
\* ------------------------------------------------------------------------

\* The number of bits of the significand of an f32.
MantissaBits == 24

RECURSIVE bit_length(_)
\* The number of bits of a natural number.
bit_length(n) == IF n = 0 THEN 0 ELSE 1 + bit_length(n \div 2)

\* u32 as f32: exact up to MantissaBits bits, rounded to the nearest value
\* with that many bits beyond, ties to the even significand.
u32_as_f32(n) ==
    IF bit_length(n) <= MantissaBits THEN n
    ELSE LET ulp == 2 ^ (bit_length(n) - MantissaBits)
             q == n \div ulp
             r == n % ulp
         IN  IF 2 * r > ulp \/ (2 * r = ulp /\ q % 2 = 1)
             THEN (q + 1) * ulp
             ELSE q * ulp

\* f32 as u32 for a value that is a natural number inside u32.
f32_as_u32(x) == x

\* fn get_max_size followed by `as u32`: Vec2::from(last level) and back.
max_size_as_u32(image) ==
    Size(f32_as_u32(u32_as_f32(get_max_size(image).width)),
         f32_as_u32(u32_as_f32(get_max_size(image).height)))

\* The region tokens "full" and "{left},{top},{width},{height}".
RegionFull == [token |-> "full"]
RegionPx(left, top, width, height) ==
    [token |-> "numbers", numbers |-> <<left, top, width, height>>]

\* fn get_image_url:
\* "{iiif_endpoint}/{region}/{size.width},{size.height}/0/default.{image_format}".
get_image_url(image, left, top, width, height, size) ==
    LET max_size == max_size_as_u32(image)
        region == IF left = 0 /\ top = 0 /\ width = max_size.width
                                /\ height = max_size.height
                  THEN RegionFull
                  ELSE RegionPx(left, top, width, height)
    IN  <<image.iiif_endpoint, region, <<size.width, size.height>>, "0",
          "default", image.image_format>>

\* The images and the requests the builder is applied to: a small image,
\* and two images with a side of MantissaBits + 1 bits.
UrlImageSizes ==
    {Size(4, 3), Size(2 ^ MantissaBits + 1, 3), Size(4, 2 ^ MantissaBits + 2)}
UrlLefts == {0, 1}
UrlTops == {0, 2}
UrlWidths == {3, 4, 2 ^ MantissaBits, 2 ^ MantissaBits + 1}
UrlHeights == {3, 2, 2 ^ MantissaBits + 2}
UrlTargetSizes == {Size(1, 2), Size(256, 256)}
UrlFormats == {"jpg", "png"}

InitUrl ==
    /\ \E full \in UrlImageSizes, format \in UrlFormats :
          fn = [op |-> "setup",
                image |-> [iiif_endpoint |-> "endpoint", image_format |-> format,
                           levels |-> <<full>>, tile_size |-> Size(256, 256)]]
    /\ eng = Idle /\ web = Idle /\ inp = Idle /\ last = Idle

\* TiledImage::get_image_url.
GetImageUrl ==
    /\ fn.op = "setup"
    /\ \E left \in UrlLefts, top \in UrlTops, width \in UrlWidths,
          height \in UrlHeights, size \in UrlTargetSizes :
          fn' = [op |-> "get_image_url", image |-> fn.image,
                 left |-> left, top |-> top, width |-> width, height |-> height,
                 size |-> size,
                 url |-> get_image_url(fn.image, left, top, width, height, size)]
    /\ UNCHANGED <<eng, web, inp, last>>

NextUrl == GetImageUrl

SpecUrl == InitUrl /\ [][NextUrl]_vars

\* The request is for the full image bounds.
is_full_region ==
    /\ fn.left = 0 /\ fn.top = 0
    /\ fn.width = get_max_size(fn.image).width
    /\ fn.height = get_max_size(fn.image).height

\* The URL is made of the endpoint, a region token, the target size, the
\* rotation 0 and default.{format}, and the region token is "full" exactly
\* for the full image bounds and the four numbers otherwise.
url_is_as_stated ==
    /\ Len(fn.url) = 6
    /\ fn.url[1] = fn.image.iiif_endpoint
    /\ fn.url[3] = <<fn.size.width, fn.size.height>>
    /\ fn.url[4] = "0" /\ fn.url[5] = "default"
    /\ fn.url[6] = fn.image.image_format
    /\ IF is_full_region
       THEN fn.url[2] = RegionFull
       ELSE fn.url[2] = RegionPx(fn.left, fn.top, fn.width, fn.height)

\* C25 as stated: for every image and every request the URL is
\* '{endpoint}/{region}/{w},{h}/0/default.{format}' and the region token is
\* 'full' if and only if the region is the full image bounds, and
\* 'left,top,width,height' otherwise.
C25_UrlOfRegion ==
    fn.op = "get_image_url" => url_is_as_stated

\* The same for the images whose sides have at most MantissaBits bits.
UrlOfRegionOfSmallImage ==
    (/\ fn.op = "get_image_url"
     /\ bit_length(get_max_size(fn.image).width) <= MantissaBits
     /\ bit_length(get_max_size(fn.image).height) <= MantissaBits) =>
        url_is_as_stated

\* ------------------------------------------------------------------------
\* Further properties of the tile engine (specification Spec).
\* ------------------------------------------------------------------------

\* The tiles a prune pass looks at: the indices of the Tile entities that
\* had a cache entry before the pass.
cached_tiles_before == {w.index : w \in eng.world} \cap DOMAIN last.before

\* x or y of the index lies outside the required range of its level.
outside_required_range(k) ==
    \/ ~range_contains(engine_required_tiles(eng, k.z).range_x, k.x)
    \/ ~range_contains(engine_required_tiles(eng, k.z).range_y, k.y)

\* C26 as stated: in a prune pass a cached tile is an eviction candidate if
\* and only if its level is above the active level, or the viewport range
\* could not be computed, or its x or y index is outside the required range
\* of its level.
C26_CandidatesAsStated ==
    (last.op = "prune" /\ last.extra.passed) =>
        last.extra.candidates =
            {k \in cached_tiles_before :
                \/ k.z > eng.level
                \/ ~engine_required_tiles(eng, k.z).some
                \/ outside_required_range(k)}

\* C26: in a prune pass a cached tile is an eviction candidate if and only
\* if its level is above the active level, or the required range of its
\* level was computed and its x or y index is outside it; while the viewport
\* range cannot be computed no tile of the levels 0..=active is a candidate.
C26_CandidatesOfPrune ==
    (last.op = "prune" /\ last.extra.passed) =>
        last.extra.candidates =
            {k \in cached_tiles_before :
                \/ k.z > eng.level
                \/ /\ engine_required_tiles(eng, k.z).some
                   /\ outside_required_range(k)}

\* A prune pass without a viewport, over budget, with a cached tile of a
\* protected level that is no candidate and a tile above the active level
\* that is one.
C26_Witness ==
    /\ last.op = "prune"
    /\ last.extra.passed
    /\ ~eng.viewport_ready
    /\ \E k \in cached_tiles_before : k.z <= eng.level /\ k \notin last.extra.candidates
    /\ \E k \in cached_tiles_before : k.z > eng.level /\ k \in last.extra.candidates

\* The indices of the Tile entities queued for spawning in this stage.
spawned_indices == {w.index : w \in eng.cmds.spawn}

\* C27: after a recompute cycle with an available viewport every required
\* tile of the active level has a cache entry; an entry was inserted, an
\* entity spawned and a load requested for exactly the required tiles that
\* had no entry; the entry of a tile that was present keeps its entity (it
\* is not requested again); and no entry was removed.
C27_RecomputeCachesRequiredTiles ==
    (last.op = "update" /\ last.extra.cycle) =>
        /\ required_indices(eng, eng.level) \subseteq DOMAIN eng.cache
        /\ last.extra.requested = required_indices(eng, eng.level) \ DOMAIN last.before
        /\ spawned_indices = last.extra.requested
        /\ \A k \in last.extra.requested :
              /\ k \in DOMAIN eng.load
              /\ eng.load[k] \in {"Loading", "Loaded"}
              /\ \E w \in eng.cmds.spawn : w.index = k /\ w.id = eng.cache[k].entity
        /\ DOMAIN last.before \subseteq DOMAIN eng.cache
        /\ \A k \in DOMAIN last.before : eng.cache[k].entity = last.before[k].entity

\* A recompute cycle that requested a required tile while the cache held
\* the entry of another tile, which it kept.
C27_Witness ==
    /\ last.op = "update"
    /\ last.extra.cycle
    /\ last.extra.requested # {}
    /\ DOMAIN last.before # {}
    /\ DOMAIN last.before \subseteq DOMAIN eng.cache

\* Every cache entry names a live Tile entity with the entry's index.
entries_name_live_tiles(e) ==
    \A k \in DOMAIN e.cache :
        \E w \in e.world : w.id = e.cache[k].entity /\ w.index = k

\* Every live Tile entity is the entity of the cache entry of its index.
live_tiles_have_entries(e) ==
    \A w \in e.world :
        w.index \in DOMAIN e.cache /\ e.cache[w.index].entity = w.id

\* No two live Tile entities have the same index.
live_tiles_differ(e) ==
    \A v \in e.world : \A w \in e.world : v.index = w.index => v = w

\* C29: whenever the deferred commands of a frame have been applied (the
\* engine is between two Last stages), the tile cache and the live Tile
\* entities correspond one to one: every entry names a live Tile entity of
\* its index, every live Tile's index has an entry naming that entity, and
\* no two live Tiles share an index; after any sequence of recompute, prune,
\* load-failure handling and image removal, the systems of a frame in any
\* order.
C29_CacheMatchesLiveTiles ==
    eng.phase = "update" =>
        /\ eng.cmds = NoCmds
        /\ entries_name_live_tiles(eng)
        /\ live_tiles_have_entries(eng)
        /\ live_tiles_differ(eng)

\* C29's case: a frame ends whose commands despawn a tile and spawn
\* another, after the image was replaced while it had tiles, and tiles
\* remain.
C29_Witness ==
    /\ last.op = "end_frame"
    /\ eng.phase = "update"
    /\ eng.images > 0
    /\ last.extra.despawned # {}
    /\ \E w \in eng.world : w.loading
    /\ \E w \in eng.world : ~w.loading

\* What a prune pass that got past its size check found and did: the
\* candidates whose image was loaded / was not, and the entries it removed.
loaded_candidates == {k \in last.extra.candidates : is_loaded(eng, k)}
unloaded_candidates == last.extra.candidates \ loaded_candidates
evicted == DOMAIN last.before \ DOMAIN eng.cache
remaining_excess ==
    saturating_sub(Cardinality(DOMAIN last.before) - MaxCacheItems,
                   Cardinality(unloaded_candidates \cap evicted))

\* C30: among the loaded eviction candidates a prune pass evicts in
\* ascending order of last_visible_secs: a loaded candidate is evicted only
\* if every loaded candidate with a strictly older timestamp is evicted too,
\* and the number of loaded candidates evicted is the smaller of the
\* remaining excess (the excess over max_cache_items less the unloaded
\* candidates evicted, not below zero) and the number of loaded candidates.
C30_LoadedEvictedOldestFirst ==
    (last.op = "prune" /\ last.extra.passed) =>
        /\ \A a \in loaded_candidates \cap evicted : \A b \in loaded_candidates :
               last.before[b].last_visible_secs < last.before[a].last_visible_secs
                   => b \in evicted
        /\ Cardinality(loaded_candidates \cap evicted)
               = MinOf(remaining_excess, Cardinality(loaded_candidates))

\* C30's case: a prune pass evicts one loaded candidate and keeps another
\* that was visible later.
C30_Witness ==
    /\ last.op = "prune"
    /\ last.extra.passed
    /\ \E a \in loaded_candidates \cap evicted : \E b \in loaded_candidates \ evicted :
           last.before[a].last_visible_secs < last.before[b].last_visible_secs

\* lib.rs:117-127: a system of the Last stage run on the engine state e, its
\* run condition looked at when it is about to run; the results it can have.
run_system(e, system) ==
    IF system = "asset"
    THEN {asset_event_system(e)}
    ELSE IF system = "prune"
         THEN IF e.tile_prune
              THEN {prune_tiles_system([e EXCEPT !.tile_prune = FALSE], S) :
                       S \in prune_loaded_choices(e)}
              ELSE {e}
         ELSE IF e.tile_mod
              THEN {update_tiles_system([e EXCEPT !.tile_mod = FALSE])}
              ELSE {e}

\* The orders in which the executor can run the three systems.
SystemOrders ==
    {o \in [1 .. 3 -> Systems] : {o[i] : i \in 1 .. 3} = Systems}

\* The tile caches the frame can end with when its systems run in the order
\* o, the deferred commands applied.
frame_end_caches(e, o) ==
    {apply_commands(e3).cache :
        e3 \in UNION {run_system(e2, o[3]) :
                  e2 \in UNION {run_system(e1, o[2]) : e1 \in run_system(e, o[1])}}}

\* C31 as stated: whatever the state the Last stage starts in, every order
\* of asset_event_system, prune_tiles_system and update_tiles_system yields
\* the same tile cache once the deferred commands are applied.
C31_CacheIndependentOfOrder ==
    (eng.phase = "last" /\ eng.todo = Systems) =>
        \A o1 \in SystemOrders : \A o2 \in SystemOrders :
            frame_end_caches(eng, o1) = frame_end_caches(eng, o2)

C35_ActiveLevelEntriesTouched ==
    (last.op = "update" /\ last.extra.cycle) =>
        \A k \in DOMAIN last.before :
            /\ k \in DOMAIN eng.cache
            /\ IF k.z = eng.level
               THEN eng.cache[k].last_visible_secs = eng.now
               ELSE eng.cache[k] = last.before[k]

\* What the second loop does: of the entries of the active level those
\* whose Tile entity has its material (the query of tile.rs:148 asks for
\* MeshMaterial2d, which a tile gets once its image is loaded) are set to
\* the current time; every other entry is left as it was.
LoadedActiveLevelEntriesTouched ==
    (last.op = "update" /\ last.extra.cycle) =>
        \A k \in DOMAIN last.before :
            /\ k \in DOMAIN eng.cache
            /\ IF k.z = eng.level /\ \E w \in eng.world : w.index = k /\ w.material
               THEN eng.cache[k].last_visible_secs = eng.now
               ELSE eng.cache[k] = last.before[k]

(***************************************************************************)
(* The zoom debounce of input/mouse.rs under the schedule of lib.rs:81-108. *)
(*                                                                         *)
(* mouse_input_system of the planar camera has two run conditions: it runs *)
(* in a frame unless egui wants the pointer or the pointer is over the     *)
(* minimap.  WinitSettings::desktop_app() (lib.rs:70) draws a frame on     *)
(* every window event and redraw request and, without any, when its wait   *)
(* times out, so frames never stop.  The system reads the time only as the *)
(* difference to the start of the debounce: the model counts it from that  *)
(* start, up to MaxAge, and holds it at 0 while no debounce is pending.    *)
(***************************************************************************)
\* The number of wheel zooms of a behaviour.
MaxWheelZooms == 2
\* The age up to which a pending debounce is counted.
MaxAge == 5

\* Where the pointer is: over the image, over an egui panel or over the
\* minimap.
Pointers == {"canvas", "egui", "minimap"}

\* lib.rs:85-90: not(egui_wants_any_pointer_input) and
\* not(minimap::ui_has_mouse_input).
mouse_system_runs(pointer) == pointer \notin {"egui", "minimap"}

\* mouse.rs:39-41 and 93-99: the system writes RequestRedraw while the
\* debounce is on and for every invalidation.
mouse_requests_redraw(i, applied) ==
    i.zoom_debounce.some \/ applied.invalidate # {}

\* The time counted from the start of the pending debounce.
since_debounce(i) ==
    IF i.zoom_debounce.some
    THEN [i EXCEPT !.now = MinOf(i.now - i.zoom_debounce.at, MaxAge),
                   !.zoom_debounce = SomeTime(0)]
    ELSE [i EXCEPT !.now = 0]

\* The Update stage of a frame at time `now` with the mouse input m and the
\* pointer at `pointer`: the mouse system runs if its run conditions allow.
debounce_frame(i, now, m, pointer) ==
    since_debounce(
        IF mouse_system_runs(pointer)
        THEN [mouse_input_system([i EXCEPT !.now = now, !.tile_mod = FALSE], m)
                 EXCEPT !.pointer = pointer,
                        !.redraw = mouse_requests_redraw(
                                       i, mouse_apply([i EXCEPT !.now = now], m))]
        ELSE [i EXCEPT !.now = now, !.tile_mod = FALSE, !.pointer = pointer,
                       !.redraw = FALSE])

WheelInput(wheel) == [NoMouseInput EXCEPT !.wheel = wheel]

InitDebounce ==
    /\ inp = [now |-> 0, zooms |-> 0, idle |-> FALSE, pointer |-> "canvas",
              redraw |-> FALSE,
              camera |-> [scale |-> RNorm(fit_zoom_scale(EnginePyramid)),
                          level |-> get_level_at(EnginePyramid,
                                                 fit_zoom_scale(EnginePyramid)),
                          translation |->
                              Vec2(RNorm(Rat(get_max_size(EnginePyramid).width, 2)),
                                   RNorm(Rat(-get_max_size(EnginePyramid).height, 2)))],
              zoom_debounce |-> NoTime, tile_mod |-> TRUE]
    /\ last = [op |-> "init"]
    /\ fn = Idle /\ eng = Idle /\ web = Idle

DebounceHist(ran) ==
    [op |-> "frame", ran |-> ran, pending |-> inp.zoom_debounce.some,
     idle |-> inp.idle]

\* A frame in which the user turns the wheel, with the pointer anywhere.
WheelFrame ==
    /\ ~inp.idle
    /\ inp.zooms < MaxWheelZooms
    /\ \E dt \in 1 .. MaxDt, wheel \in {-1, 1}, pointer \in Pointers :
          inp' = [debounce_frame(inp, inp.now + dt, WheelInput(wheel), pointer)
                     EXCEPT !.zooms = inp.zooms + 1]
    /\ last' = DebounceHist(TRUE)
    /\ UNCHANGED <<fn, eng, web>>

\* A frame in which the user moves the pointer, no button held.
PointerFrame ==
    /\ ~inp.idle
    /\ \E dt \in 1 .. MaxDt, pointer \in Pointers :
          inp' = debounce_frame(inp, inp.now + dt, NoMouseInput, pointer)
    /\ last' = DebounceHist(TRUE)
    /\ UNCHANGED <<fn, eng, web>>

\* The user lets go of the mouse: no input from now on.
UserStops ==
    /\ ~inp.idle
    /\ inp' = [inp EXCEPT !.idle = TRUE]
    /\ last' = [op |-> "stop"]
    /\ UNCHANGED <<fn, eng, web>>

\* A frame without input: a requested redraw, or the wait of winit timed
\* out.
IdleFrame ==
    /\ inp.idle
    /\ \E dt \in 1 .. MaxDt :
          inp' = debounce_frame(inp, inp.now + dt, NoMouseInput, inp.pointer)
    /\ last' = DebounceHist(TRUE)
    /\ UNCHANGED <<fn, eng, web>>

NextDebounce ==
    \/ WheelFrame
    \/ PointerFrame
    \/ UserStops
    \/ IdleFrame

\* Frames never stop.
SpecDebounce ==
    InitDebounce /\ [][NextDebounce]_vars /\ WF_vars(IdleFrame)

\* The zoom debounce is pending / has just invalidated TileModState.
debounce_pending == inp.zoom_debounce.some
debounce_invalidated == ~inp.zoom_debounce.some /\ inp.tile_mod

\* C32 as stated: once the zoom updates have stopped, a pending debounce is
\* followed by the invalidation of TileModState without further input,
\* wherever the pointer is, and every frame that begins with the debounce
\* pending requests a redraw.
C32_DebounceAlwaysInvalidates ==
    /\ (inp.idle /\ debounce_pending) ~> debounce_invalidated
    /\ []((last.op = "frame" /\ last.pending) => inp.redraw)

\* The same with the pointer left over the image.
DebounceInvalidatesOverCanvas ==
    /\ (inp.idle /\ debounce_pending /\ inp.pointer = "canvas") ~> debounce_invalidated
    /\ []((last.op = "frame" /\ last.pending /\ inp.pointer = "canvas") => inp.redraw)

(***************************************************************************)
(* SpecActiveLevel: AppState::level and the scale of the planar camera     *)
(* under                                                                   *)
(* image loads and switches (load_canvas_system, on_add_tiled_image),      *)
(* removal of the image (on_remove of the manifest), the planar apply of   *)
(* the mouse and of the touch system, and keyboard_input_system.  The      *)
(* three places below are the only ones that write AppState::level or the  *)
(* orthographic scale (tiled_image.rs:67-69, pan_zoom_state_2d.rs:81-85,   *)
(* keyboard.rs:54-58).  update_tiles_system and prune_tiles_system take    *)
(* Single<&TiledImage> (tile.rs:150, 234): they run only while exactly one *)
(* image is displayed.                                                     *)
(***************************************************************************)
\* The images: three, one and two levels; the world size is the size in
\* pixels of the last level.
DeepPyramid ==
    TiledImage(<<Size(256, 128), Size(512, 256), Size(1024, 512)>>, Size(256, 256))
FlatPyramid == TiledImage(<<Size(128, 64)>>, Size(128, 64))
PairPyramid == TiledImage(<<Size(256, 256), Size(512, 512)>>, Size(256, 256))
LevelImages == {DeepPyramid, FlatPyramid, PairPyramid}
\* The updates of a behaviour.
MaxLevelSteps == 4
\* delta_zoom of apply: a pan (1), a wheel step and a pinch.
LevelDeltaZooms == {Rat(1, 1), Rat(9, 10), Rat(11, 10), Rat(1, 4), Rat(4, 1)}

DisplayedImage(img) == [some |-> TRUE, size |-> get_max_size(img), img |-> img]

\* A planar apply that leaves AppState::level alone.
apply_level_stale(z, scale) == z.level

\* pan_zoom_state_2d.rs:83-85: the level follows the scale when a tiled
\* image exists.
apply_level(z, scale) ==
    IF z.image.some THEN get_level_at(z.image.img, scale) ELSE z.level

\* pan_zoom_state_2d.rs:58-85: the scale and the level after an apply with
\* Pan or Zoom in the mode; nothing is written when neither the pointer
\* moved nor the clamped scale differs from the initial one.
level_apply(z, initial_scale, delta_zoom, moved) ==
    LET scale == apply_zoom_scale([z EXCEPT !.scale = initial_scale], delta_zoom)
    IN  IF moved \/ scale # initial_scale
        THEN [z EXCEPT !.scale = scale, !.level = apply_level(z, scale)]
        ELSE z

\* keyboard.rs:48-58.
level_keyboard(z, factor) ==
    LET scale == keyboard_zoom_scale(z, factor)
    IN  [z EXCEPT !.scale = scale, !.level = get_level_at(z.image.img, scale)]

\* tiled_image.rs:57-69.
level_on_add(z, img) ==
    [z EXCEPT !.image = DisplayedImage(img),
              !.level = get_level_at(img, on_add_zoom_scale(get_max_size(img))),
              !.world_image_max_size = get_max_size(img),
              !.scale = on_add_zoom_scale(get_max_size(img))]

\* lib.rs, fn setup, and AppState::default; touch_initial is the scale of
\* the snapshot of TouchHistory.
InitActiveLevel ==
    /\ fn = [op |-> "setup", image |-> NoImage, world_image_max_size |-> Size(0, 0),
             scale |-> RInt(1), level |-> 0, touch_initial |-> RInt(1),
             before |-> NoImage, steps |-> 0]
    /\ eng = Idle /\ web = Idle /\ inp = Idle /\ last = Idle

LevelStep(op, z) ==
    fn' = [z EXCEPT !.op = op, !.before = fn.image, !.steps = fn.steps + 1]

\* web.rs:196-208 and on_add_tiled_image: the image is added or replaces
\* the displayed one.
LevelAddImage ==
    /\ fn.steps < MaxLevelSteps
    /\ \E img \in LevelImages : LevelStep("on_add", level_on_add(fn, img))
    /\ UNCHANGED <<eng, web, inp, last>>

\* manifest.rs:45-53: the image is despawned with nothing in its place.
LevelRemoveImage ==
    /\ fn.steps < MaxLevelSteps
    /\ fn.image.some
    /\ LevelStep("remove", [fn EXCEPT !.image = NoImage])
    /\ UNCHANGED <<eng, web, inp, last>>

\* touch.rs:71-100: a press captures the snapshot of the gesture.
LevelTouchPress ==
    /\ fn.steps < MaxLevelSteps
    /\ fn.touch_initial # fn.scale
    /\ LevelStep("press", [fn EXCEPT !.touch_initial = fn.scale])
    /\ UNCHANGED <<eng, web, inp, last>>

\* mouse.rs:68-99 (the initial state is the current one) and touch.rs:
\* 106-136 (the initial state is the snapshot).
LevelApply ==
    /\ fn.steps < MaxLevelSteps
    /\ \E delta_zoom \in LevelDeltaZooms, moved \in BOOLEAN,
          initial_scale \in {fn.scale, fn.touch_initial} :
          LevelStep("apply", level_apply(fn, initial_scale, delta_zoom, moved))
    /\ UNCHANGED <<eng, web, inp, last>>

\* keyboard.rs: the system needs the image (Single<&TiledImage>).
LevelKeyboard ==
    /\ fn.steps < MaxLevelSteps
    /\ fn.image.some
    /\ \E factor \in KeyFactors : LevelStep("keyboard", level_keyboard(fn, factor))
    /\ UNCHANGED <<eng, web, inp, last>>

NextActiveLevel ==
    \/ LevelAddImage
    \/ LevelRemoveImage
    \/ LevelTouchPress
    \/ LevelApply
    \/ LevelKeyboard

SpecActiveLevel == InitActiveLevel /\ [][NextActiveLevel]_vars

\* C36: whenever exactly one TiledImage is displayed (the condition under
\* which update_tiles_system and prune_tiles_system run), AppState::level
\* is an index into the levels of that image and equals get_level_at of the
\* camera's orthographic scale, after any sequence of loads, switches,
\* removals, gestures and keyboard zooms.
C36_LevelFollowsScale ==
    fn.image.some =>
        /\ fn.level \in 0..(Len(fn.image.img.levels) - 1)
        /\ fn.level = get_level_at(fn.image.img, fn.scale)

\* An image with fewer levels has replaced one whose active level was not
\* an index of the new one, then a gesture or a key has changed the scale.
C36_Witness ==
    /\ fn.op \in {"apply", "keyboard"}
    /\ fn.image.some
    /\ fn.image.img = PairPyramid
    /\ fn.level = 0
    /\ fn.scale # on_add_zoom_scale(get_max_size(PairPyramid))

(***************************************************************************)
(* SpecOrbital: one call of ApplyCameraState::apply after another, made by *)
(* the mouse systems and the touch systems of lib.rs:85-100 on both        *)
(* cameras: PanZoomState2d (planar) and PanOrbitState3d (orbital).  Angles *)
(* are counted as in SpecOrbit.  The centre of the orbital camera is kept  *)
(* as a term: the centre before, the rotation of the transform whose right *)
(* and up vectors are used, and the two factors of these vectors.          *)
(***************************************************************************)
\* The calls of a behaviour.
MaxOrbitalSteps == 2
\* mouse.rs:56-59: the sum of the signs of the scroll events of a frame.
WheelSums == {-1, 0, 1, 3, 10, 12}
\* touch.rs:120: start_distance_squared / current_distance_squared.
PinchRatios == {Rat(1, 4), Rat(1, 1), Rat(4, 1)}
\* delta_move in pixels.
OrbitalMoves == {<<0, 0>>, <<200, 0>>, <<-200, 100>>}
MouseButtonSets == {{}, {"Left"}, {"Right"}, {"Left", "Right"}}
\* app_settings.rs:13.
pan_sensitivity == Rat(1, 500)

\* PanOrbitState3d::default (pan_orbit_state_3d.rs:30-40) and the state of
\* on_remove_model_loading (model_image.rs:105-115), whose radius is the
\* size of the meshes, not 0.
OrbitalDefault ==
    [angles |-> [yaw |-> 0, pitch |-> 0], radius |-> RInt(1),
     center |-> [at |-> "zero"], is_added |-> TRUE]
OrbitalOfMeshes ==
    [angles |-> [yaw |-> 0, pitch |-> 0], radius |-> Rat(5, 2),
     center |-> [at |-> "aabb"], is_added |-> TRUE]

\* pan_orbit_state_3d.rs:96-107.
orbital_radius(mode, initial_state, delta_zoom, state) ==
    IF "Zoom" \in mode /\ delta_zoom # RInt(1)
    THEN RMul(initial_state.radius, delta_zoom)
    ELSE state.radius

\* pan_orbit_state_3d.rs:113-124: the centre moves along the right and the
\* up vector of the transform, by the move times pan_sensitivity times the
\* radius just computed.
orbital_center(mode, initial_state, dx, dy, state, rotation, radius) ==
    IF "Pan" \in mode /\ (dx # 0 \/ dy # 0)
    THEN [at |-> "moved", from |-> initial_state.center, rotation |-> rotation,
          right |-> RMul(RMul(RInt(-dx), pan_sensitivity), radius),
          up |-> RMul(RMul(RInt(dy), pan_sensitivity), radius)]
    ELSE state.center

\* pan_orbit_state_3d.rs:64-141, fn apply of PanOrbitState3d: the state,
\* the transform of the 3D camera and the Invalidate flags, which are
\* cleared at the end.
orbital_apply(mode, initial_state, delta_zoom, dx, dy, state, transform) ==
    LET angles == orbit_apply(mode, initial_state.angles, dx, dy, state.angles)
        radius == orbital_radius(mode, initial_state, delta_zoom, state)
        center == orbital_center(mode, initial_state, dx, dy, state,
                                 transform.rotation, radius)
        any == \/ "Orbit" \in mode /\ (dx # 0 \/ dy # 0)
               \/ "Zoom" \in mode /\ delta_zoom # RInt(1)
               \/ "Pan" \in mode /\ (dx # 0 \/ dy # 0)
    IN  [state |-> [angles |-> angles, radius |-> radius, center |-> center,
                    is_added |-> FALSE],
         transform |-> IF any \/ state.is_added
                       THEN [rotation |-> angles, center |-> center, back |-> radius]
                       ELSE transform,
         invalidate |-> {}]

\* lib.rs, fn setup: the planar camera as in SpecInput, the transform of
\* the 3D camera not yet placed; the orbital state is the default or that
\* of a model that has loaded.
InitOrbital ==
    /\ \E orbital \in {OrbitalDefault, OrbitalOfMeshes} :
          fn = [op |-> "setup", steps |-> 0,
                planar |-> [scale |-> RNorm(fit_zoom_scale(EnginePyramid)),
                            level |-> get_level_at(EnginePyramid,
                                                   fit_zoom_scale(EnginePyramid)),
                            translation |->
                                Vec2(RNorm(Rat(get_max_size(EnginePyramid).width, 2)),
                                     RNorm(Rat(-get_max_size(EnginePyramid).height, 2)))],
                orbital |-> orbital,
                transform |-> [rotation |-> [yaw |-> 0, pitch |-> 0],
                               center |-> [at |-> "zero"], back |-> RZero],
                planar_initial |-> [translation |-> VZero, scale |-> RZero],
                orbital_initial |-> orbital,
                pressed |-> FALSE]
    /\ eng = Idle /\ web = Idle /\ inp = Idle /\ last = Idle

\* Both cameras after a call with the same arguments, and what the
\* properties need of the call.
orbital_step(op, mode, planar_initial, orbital_initial, delta_zoom, move) ==
    LET planar == apply(mode, planar_initial, RVec(3, 1), delta_zoom,
                        RVec(move[1], move[2]), fn.planar)
        orbital == orbital_apply(mode, orbital_initial, delta_zoom, move[1], move[2],
                                 fn.orbital, fn.transform)
    IN  /\ fn' = [fn EXCEPT !.op = op, !.steps = fn.steps + 1,
                            !.planar = planar.camera,
                            !.orbital = orbital.state,
                            !.transform = orbital.transform,
                            !.planar_initial = planar_initial,
                            !.orbital_initial = orbital_initial]
        /\ last' = [op |-> op, mode |-> mode, delta_zoom |-> delta_zoom, move |-> move,
                    planar_before |-> fn.planar, orbital_before |-> fn.orbital,
                    orbital_initial |-> orbital_initial,
                    planar_invalidate |-> planar.invalidate,
                    orbital_invalidate |-> orbital.invalidate]

\* touch.rs:75-78: a finger goes down with none down before; both touch
\* systems take their initial state.
OrbitalTouchPress ==
    /\ fn.steps < MaxOrbitalSteps
    /\ ~fn.pressed
    /\ fn' = [fn EXCEPT !.op = "press", !.pressed = TRUE,
                        !.planar_initial = get_initial_state(fn.planar),
                        !.orbital_initial = fn.orbital]
    /\ last' = [op |-> "press"]
    /\ UNCHANGED <<eng, web, inp>>

\* touch.rs:137-160: one finger orbits.
OrbitalTouchOne ==
    /\ fn.steps < MaxOrbitalSteps
    /\ fn.pressed
    /\ \E move \in OrbitalMoves :
          orbital_step("touch", {"Orbit"}, fn.planar_initial, fn.orbital_initial,
                       RInt(1), move)
    /\ UNCHANGED <<eng, web, inp>>

\* touch.rs:106-136: two fingers pan and zoom.
OrbitalTouchTwo ==
    /\ fn.steps < MaxOrbitalSteps
    /\ fn.pressed
    /\ \E move \in OrbitalMoves, ratio \in PinchRatios :
          orbital_step("touch", {"Pan", "Zoom"}, fn.planar_initial, fn.orbital_initial,
                       ratio, move)
    /\ UNCHANGED <<eng, web, inp>>

\* touch.rs:59-61.
OrbitalTouchRelease ==
    /\ fn.pressed
    /\ fn' = [fn EXCEPT !.op = "release", !.pressed = FALSE]
    /\ last' = [op |-> "release"]
    /\ UNCHANGED <<eng, web, inp>>

\* mouse.rs:50-91: the initial state is the state of this frame; the zoom
\* is 1 - delta_wheel * 0.1.
OrbitalMouse ==
    /\ fn.steps < MaxOrbitalSteps
    /\ \E buttons \in MouseButtonSets, wheel \in WheelSums, move \in OrbitalMoves :
          orbital_step("mouse", mouse_mode(buttons), get_initial_state(fn.planar),
                       fn.orbital, RNorm(Rat(10 - wheel, 10)), move)
    /\ UNCHANGED <<eng, web, inp>>

NextOrbital ==
    \/ OrbitalTouchPress
    \/ OrbitalTouchOne
    \/ OrbitalTouchTwo
    \/ OrbitalTouchRelease
    \/ OrbitalMouse

SpecOrbital == InitOrbital /\ [][NextOrbital]_vars

\* C38: a call of apply in the Orbit mode leaves the planar camera's
\* translation, scale and level as they were and raises no flag; it leaves
\* the orbital camera's centre and radius as they were, so that only yaw
\* and pitch change; and after every call of the orbital apply, in any
\* mode, no Invalidate flag is raised.
C38_OrbitModeIgnoresPanAndZoom ==
    last.op \in {"mouse", "touch"} =>
        /\ last.orbital_invalidate = {}
        /\ last.mode = {"Orbit"} =>
              /\ fn.planar = last.planar_before
              /\ last.planar_invalidate = {}
              /\ fn.orbital.center = last.orbital_before.center
              /\ fn.orbital.radius = last.orbital_before.radius

\* The right button is held while the wheel turns and the mouse moves: the
\* orbital camera has turned.
C38_Witness ==
    /\ last.op = "mouse"
    /\ last.mode = {"Orbit"}
    /\ last.delta_zoom # RInt(1)
    /\ last.move # <<0, 0>>
    /\ fn.orbital.angles # last.orbital_before.angles

\* C39 as stated: a call of the orbital apply that zooms sets the radius to
\* the initial radius times the zoom, and a radius that was positive is
\* positive after it, for every sum of scroll events and every pinch ratio.
C39_RadiusStaysPositive ==
    (/\ last.op \in {"mouse", "touch"}
     /\ "Zoom" \in last.mode
     /\ last.delta_zoom # RInt(1)) =>
        /\ fn.orbital.radius = RMul(last.orbital_initial.radius, last.delta_zoom)
        /\ last.orbital_initial.radius.n > 0 => fn.orbital.radius.n > 0

\* The same with fewer than ten scroll events more in one direction than in
\* the other in a frame.
RadiusPositiveBelowTenScrolls ==
    (/\ last.op \in {"mouse", "touch"}
     /\ "Zoom" \in last.mode
     /\ last.delta_zoom # RInt(1)
     /\ last.delta_zoom.n > 0) =>
        /\ fn.orbital.radius = RMul(last.orbital_initial.radius, last.delta_zoom)
        /\ last.orbital_initial.radius.n > 0 => fn.orbital.radius.n > 0

====
